---- MODULE Spec2Model ----
(***************************************************************************)
(* Maintainer core of a changefeed: the Replication DB (span index with    *)
(* lifecycle partitions and the table/schema indices), the operator        *)
(* controller's add path, and the barrier event state machine.             *)
(***************************************************************************)
EXTENDS Integers, Sequences, FiniteSets, Bags, TLC

(***************************************************************************)
(* Bounds of the model.                                                    *)
(***************************************************************************)
\* number of dispatcher ids common.NewDispatcherID() hands out in one run
MaxID == 2
\* the keys of a table are 0..KeyMax
KeyMax == 2
\* the checkpoint the changefeed starts from
StartTs == 1

(***************************************************************************)
(* Program constants.                                                      *)
(***************************************************************************)
\* the id of the table trigger (DDL) dispatcher, Controller.ddlDispatcherID
ddlSpanID == 0
\* heartbeatpb.DDLSpan.TableID, the sentinel table id of the DDL span
DDLTableID == 0
\* ddlSpan.schemaID, the schema key the DDL span is indexed under
DDLSchemaID == 0

\* the physical table ids and the ids of the user schemas
TableIDs == {1, 2}
SchemaIDs == {1, 2}
\* table and schema ids a caller may pass, the sentinels included
AnyTableIDs == {DDLTableID} \cup TableIDs
AnySchemaIDs == {DDLSchemaID} \cup SchemaIDs
\* node.ID values; the empty string is "no node"
NoNode == ""
Nodes == {"n1", "n2"}
\* the node hosting the table trigger dispatcher
DDLNode == "n1"
\* ids NewDispatcherID can return, and every id a caller can name
NewIDs == 1..MaxID
AnyIDs == {ddlSpanID} \cup NewIDs \cup {MaxID + 1}

\* the concurrent invocations of Controller.moveTable
Calls == {"c1", "c2"}

VARIABLES
    db,            \* the ReplicationDB: its maps and the SpanReplication objects they point to
    nextID,        \* the next id common.NewDispatcherID() returns
    fatal,         \* TRUE once log.Panic (or a runtime panic) ended the process
    ops,           \* the operator objects, by the invocation that created them
    runningQueue,  \* the operator controller's queue of in-flight operators
    mv,            \* the position and locals of every moveTable invocation
    ev,            \* the BarrierEvent
    now,           \* time.Now(), in seconds since the barrier event was created
    out,           \* what the last call on the barrier event returned
    rp,            \* the same reports delivered to copies of the event in other ways
    sent,          \* the time of the event's last resend that returned messages, if any
    call,          \* the last call on the Replication DB, its arguments and result
    ctl,           \* the Controller: bootstrapped, its task handles, the commands it sent
    res,           \* the last call on the Controller or the matcher, its arguments and result
    lk,            \* the DB's read-write lock: the writer inside it, what a reader saw
    mt,            \* the log puller's matcher of one region
    hs,            \* a HandleStatus thread between its look-up of a span and UpdateStatus
    gc             \* the generation of the DB's partitions and the updates its group checkers took

dbVars == <<db, nextID, fatal>>
opVars == <<ops, runningQueue, mv>>
beVars == <<ev, now, out, rp, sent>>
ctlVars == <<ctl, res, lk>>
hsVars == <<hs, gc>>
vars == <<db, nextID, fatal, ops, runningQueue, mv, ev, now, out, rp, sent, call, ctl, res, lk, mt, hs, gc>>

(***************************************************************************)
(* Go maps.                                                                *)
(***************************************************************************)
EmptyMap == [x \in {} |-> {}]
MapPut(m, k, v) == [x \in (DOMAIN m) \cup {k} |-> IF x = k THEN v ELSE m[x]]
MapDel(m, k) == [x \in (DOMAIN m) \ {k} |-> m[x]]
\* indexing a missing key yields the nil inner map
MapGet(m, k) == IF k \in DOMAIN m THEN m[k] ELSE {}
\* delete(m[k], id); if len(m[k]) == 0 { delete(m, k) }
MapDelInner(m, k, id) ==
    IF MapGet(m, k) \ {id} = {} THEN MapDel(m, k) ELSE MapPut(m, k, m[k] \ {id})
\* inner, ok := m[k]; if !ok { inner = make(map); m[k] = inner }; inner[id] = span
MapAddInner(m, k, id) == MapPut(m, k, MapGet(m, k) \cup {id})

(***************************************************************************)
(* SpanReplication objects.                                                *)
(***************************************************************************)
\* heartbeatpb.TableSpan: keys of a table are 0..KeyMax, [startKey, endKey) a range
TableSpan(tableID, startKey, endKey) ==
    [tableID |-> tableID, startKey |-> startKey, endKey |-> endKey]
\* spanz.TableIDToComparableSpan: the whole key range of a table
TableIDToComparableSpan(tableID) == TableSpan(tableID, 0, KeyMax)
\* the status of a span is its component state and its checkpoint ts
NewReplicaSet(schemaID, span, checkpointTs) ==
    [tableID |-> span.tableID, startKey |-> span.startKey, endKey |-> span.endKey,
     schemaID |-> schemaID, nodeID |-> NoNode, checkpointTs |-> checkpointTs,
     componentStatus |-> "Absent"]
NewWorkingReplicaSet(schemaID, span, checkpointTs, node) ==
    [tableID |-> span.tableID, startKey |-> span.startKey, endKey |-> span.endKey,
     schemaID |-> schemaID, nodeID |-> node, checkpointTs |-> checkpointTs,
     componentStatus |-> "Working"]
SetNodeID(d, id, node) == [d EXCEPT !.spans[id].nodeID = node]
SetSchemaID(d, id, schemaID) == [d EXCEPT !.spans[id].schemaID = schemaID]
GetNodeID(d, id) == d.spans[id].nodeID
GetSchemaID(d, id) == d.spans[id].schemaID

(***************************************************************************)
(* The embedded generic lifecycle tracker (pkg/scheduler/replica): the     *)
(* absent, scheduling and replicating partitions.                          *)
(***************************************************************************)
AddAbsentWithoutLock(d, id) == [d EXCEPT !.absent = @ \cup {id}]
AddReplicatingWithoutLock(d, id) == [d EXCEPT !.replicating = @ \cup {id}]
MarkAbsentWithoutLock(d, id) ==
    SetNodeID([d EXCEPT !.scheduling = @ \ {id},
                        !.replicating = @ \ {id},
                        !.absent = @ \cup {id}], id, NoNode)
MarkSchedulingWithoutLock(d, id) ==
    [d EXCEPT !.absent = @ \ {id},
              !.replicating = @ \ {id},
              !.scheduling = @ \cup {id}]
MarkReplicatingWithoutLock(d, id) ==
    [d EXCEPT !.absent = @ \ {id},
              !.scheduling = @ \ {id},
              !.replicating = @ \cup {id}]
BindReplicaToNodeWithoutLock(d, old, new, id) ==
    SetNodeID([d EXCEPT !.absent = @ \ {id},
                        !.replicating = @ \ {id},
                        !.scheduling = @ \cup {id}], id, new)
RemoveReplicaWithoutLock(d, id) ==
    [d EXCEPT !.absent = @ \ {id},
              !.scheduling = @ \ {id},
              !.replicating = @ \ {id}]
GetReplicatingWithoutLock(d) == d.replicating
GetSchedulingWithoutLock(d) == d.scheduling

(***************************************************************************)
(* ReplicationDB, the unlocked helpers.                                    *)
(***************************************************************************)
reset(d) ==
    [d EXCEPT !.schemaTasks = EmptyMap,
              !.tableTasks = EmptyMap,
              !.allTasks = {},
              !.absent = {},
              !.scheduling = {},
              !.replicating = {}]

putDDLDispatcher(d) ==
    [d EXCEPT !.allTasks = @ \cup {ddlSpanID},
              !.tableTasks = MapPut(@, d.spans[ddlSpanID].tableID, {ddlSpanID}),
              !.schemaTasks = MapPut(@, d.spans[ddlSpanID].schemaID, {ddlSpanID})]

addToSchemaAndTableMap(d, id) ==
    [d EXCEPT !.schemaTasks = MapAddInner(@, d.spans[id].schemaID, id),
              !.tableTasks = MapAddInner(@, d.spans[id].tableID, id)]

\* one iteration of addAbsentReplicaSetUnLock; the span object is created by the caller
addAbsentReplicaSetUnLock(d, id) ==
    addToSchemaAndTableMap(
        AddAbsentWithoutLock([d EXCEPT !.allTasks = @ \cup {id}], id), id)

\* removeSpanUnLock without the pruning of the emptied inner maps
removeSpanUnLock_NoPrune(d, id) ==
    LET d1 == RemoveReplicaWithoutLock(d, id)
        sid == d.spans[id].schemaID
        tid == d.spans[id].tableID
    IN  [d1 EXCEPT !.schemaTasks = IF sid \in DOMAIN @ THEN MapPut(@, sid, @[sid] \ {id}) ELSE @,
                   !.tableTasks = IF tid \in DOMAIN @ THEN MapPut(@, tid, @[tid] \ {id}) ELSE @,
                   !.allTasks = @ \ {id}]

\* one iteration of removeSpanUnLock
removeSpanUnLock(d, id) ==
    LET d1 == RemoveReplicaWithoutLock(d, id)
    IN  [d1 EXCEPT !.schemaTasks = MapDelInner(@, d.spans[id].schemaID, id),
                   !.tableTasks = MapDelInner(@, d.spans[id].tableID, id),
                   !.allTasks = @ \ {id}]

RECURSIVE removeSpansUnLock(_, _)
removeSpansUnLock(d, ids) ==
    IF ids = {} THEN d
    ELSE LET id == CHOOSE x \in ids : TRUE
         IN  removeSpansUnLock(removeSpanUnLock(d, id), ids \ {id})

\* SpanReplication objects no map and no field points to any more are gone
Referenced(d) ==
    {ddlSpanID} \cup d.allTasks \cup d.absent \cup d.scheduling \cup d.replicating
        \cup UNION {d.tableTasks[k] : k \in DOMAIN d.tableTasks}
        \cup UNION {d.schemaTasks[k] : k \in DOMAIN d.schemaTasks}
Collect(d) == [d EXCEPT !.spans = [id \in Referenced(d) |-> d.spans[id]]]

NewObject(d, id, obj) == [d EXCEPT !.spans = MapPut(@, id, obj)]

(***************************************************************************)
(* ReplicationDB, construction and queries.                                *)
(***************************************************************************)
NewReplicaSetDB ==
    putDDLDispatcher(reset(
        [spans |-> [id \in {ddlSpanID} |->
                        NewWorkingReplicaSet(DDLSchemaID,
                            TableIDToComparableSpan(DDLTableID), StartTs, DDLNode)],
         allTasks |-> {}, schemaTasks |-> EmptyMap, tableTasks |-> EmptyMap,
         absent |-> {}, scheduling |-> {}, replicating |-> {}]))

GetTaskByID(d, id) == IF id \in d.allTasks THEN {id} ELSE {}
TaskSize(d) == Cardinality(d.allTasks)
GetTasksByTableIDs(d, tableIDs) == UNION {MapGet(d.tableTasks, t) : t \in tableIDs}
GetAllTasks(d) == d.allTasks
IsTableExists(d, tableID) ==
    tableID \in DOMAIN d.tableTasks /\ Cardinality(d.tableTasks[tableID]) > 0
GetTaskSizeBySchemaID(d, schemaID) ==
    IF schemaID \in DOMAIN d.schemaTasks THEN Cardinality(d.schemaTasks[schemaID]) ELSE 0
GetTasksBySchemaID(d, schemaID) == MapGet(d.schemaTasks, schemaID)
GetDDLDispatcher == ddlSpanID

(***************************************************************************)
(* ReplicationDB, the mutations as functions of the DB.                    *)
(***************************************************************************)
\* every removed span returned, with a node or without
Scheduled_All(d, ids) == ids

\* the spans a TryRemove call returns: the removed ones that have a node
Scheduled(d, ids) == {id \in ids : GetNodeID(d, id) # NoNode}

TryRemoveAllDB(d) == putDDLDispatcher(reset(d))
TryRemoveAllRet(d) == GetReplicatingWithoutLock(d) \cup GetSchedulingWithoutLock(d)

TryRemoveByTableIDsDB(d, tableIDs) == removeSpansUnLock(d, GetTasksByTableIDs(d, tableIDs))
TryRemoveByTableIDsRet(d, tableIDs) == Scheduled(d, GetTasksByTableIDs(d, tableIDs))

TryRemoveBySchemaIDDB(d, schemaID) == removeSpansUnLock(d, MapGet(d.schemaTasks, schemaID))
TryRemoveBySchemaIDRet(d, schemaID) == Scheduled(d, MapGet(d.schemaTasks, schemaID))

ForceRemoveDB(d, id) == IF id \notin d.allTasks THEN d ELSE removeSpanUnLock(d, id)

\* UpdateSchemaID that leaves the span under its old schema key as well
updateSchemaOf_KeepOld(d, id, newSchemaID) ==
    [SetSchemaID(d, id, newSchemaID) EXCEPT !.schemaTasks = MapAddInner(@, newSchemaID, id)]

\* one iteration of the loop of UpdateSchemaID
updateSchemaOf(d, id, newSchemaID) ==
    LET oldSchemaID == GetSchemaID(d, id)
        d1 == SetSchemaID(d, id, newSchemaID)
        d2 == IF oldSchemaID \in DOMAIN d1.schemaTasks
              THEN [d1 EXCEPT !.schemaTasks = MapDelInner(@, oldSchemaID, id)]
              ELSE d1
    IN  [d2 EXCEPT !.schemaTasks = MapAddInner(@, newSchemaID, id)]

RECURSIVE updateSchemaOfAll(_, _, _)
updateSchemaOfAll(d, ids, newSchemaID) ==
    IF ids = {} THEN d
    ELSE LET id == CHOOSE x \in ids : TRUE
         IN  updateSchemaOfAll(updateSchemaOf(d, id, newSchemaID), ids \ {id}, newSchemaID)

\* UpdateSchemaID that moves every span of the DB
UpdateSchemaIDDB_AllTables(d, tableID, newSchemaID) ==
    updateSchemaOfAll(d, d.allTasks, newSchemaID)

UpdateSchemaIDDB(d, tableID, newSchemaID) ==
    updateSchemaOfAll(d, MapGet(d.tableTasks, tableID), newSchemaID)

AddReplicatingSpanDB(d, id) ==
    AddReplicatingWithoutLock(
        addToSchemaAndTableMap([d EXCEPT !.allTasks = @ \cup {id}], id), id)

(***************************************************************************)
(* ReplaceReplicaSet as a function of the DB.  The first loop checks and   *)
(* removes the olds one by one; a missing old ends the process where the   *)
(* loop stands.  oldReplications[0] of an empty list is a runtime panic.   *)
(***************************************************************************)
\* the checkpoint ts of the call kept whatever the olds have
Min_First(a, b) == a

Min(a, b) == IF a < b THEN a ELSE b

\* the state after the first i olds: [db, ts, fatal]
RECURSIVE replaceOlds(_, _, _, _)
replaceOlds(d, olds, i, ts) ==
    IF i > Len(olds) THEN [db |-> d, ts |-> ts, fatal |-> FALSE]
    ELSE IF olds[i] \notin d.allTasks THEN [db |-> d, ts |-> ts, fatal |-> TRUE]
    ELSE replaceOlds(removeSpanUnLock(d, olds[i]), olds, i + 1,
                     Min(ts, d.spans[olds[i]].checkpointTs))

\* the loop creating and inserting the new replica sets, ids first, first + 1, ...
RECURSIVE replaceNews(_, _, _, _, _, _)
replaceNews(d, newSpans, i, first, schemaID, ts) ==
    IF i > Len(newSpans) THEN d
    ELSE replaceNews(
            addAbsentReplicaSetUnLock(
                NewObject(d, first + i - 1, NewReplicaSet(schemaID, newSpans[i], ts)),
                first + i - 1),
            newSpans, i + 1, first, schemaID, ts)

\* ReplaceReplicaSet that takes the DDL span's schema when there is no old
ReplaceReplicaSetDB_NoOlds(d, olds, newSpans, checkpointTs, first) ==
    LET r == replaceOlds(d, olds, 1, checkpointTs)
    IN  IF r.fatal THEN [db |-> r.db, fatal |-> TRUE]
        ELSE [db |-> replaceNews(r.db, newSpans, 1, first,
                                 IF Len(olds) = 0 THEN DDLSchemaID ELSE GetSchemaID(d, olds[1]),
                                 r.ts),
              fatal |-> FALSE]

ReplaceReplicaSetDB(d, olds, newSpans, checkpointTs, first) ==
    LET r == replaceOlds(d, olds, 1, checkpointTs)
    IN  IF r.fatal \/ Len(olds) = 0 THEN [db |-> r.db, fatal |-> TRUE]
        ELSE [db |-> replaceNews(r.db, newSpans, 1, first,
                                 GetSchemaID(d, olds[1]), r.ts),
              fatal |-> FALSE]

(***************************************************************************)
(* The actions of the Replication DB.  A new span object is named by the   *)
(* id NewDispatcherID returns; the caller's bound on ids is a guard of the *)
(* next-state relation.                                                    *)
(***************************************************************************)
\* no moveTable invocation has started, no operator exists
InitOp ==
    /\ ops = <<>>
    /\ runningQueue = <<>>
    /\ mv = [c \in Calls |-> [pc |-> "start", count |-> 0, added |-> FALSE, err |-> "nil"]]

\* no barrier event has been created
InitNoEvent ==
    /\ ev = [created |-> FALSE]
    /\ now = 0
    /\ out = [ret |-> {}, msgs |-> {}]
    /\ rp = [created |-> FALSE]
    /\ sent = {}
    /\ call = [op |-> "none"]

\* NewController: not bootstrapped, no task registered; nobody holds the lock
NewController(enableTableAcrossNodes, checkpointTs) ==
    [bootstrapped |-> FALSE, taskHandlers |-> <<>>,
     enableTableAcrossNodes |-> enableTableAcrossNodes,
     startCheckpointTs |-> checkpointTs]

\* newMatcher(): nothing cached; matched counts, for every match key, the
\* commit rows matched with the prewrite cached last under it
newMatcher ==
    [unmatchedValue |-> EmptyMap, cachedCommit |-> <<>>, cachedRollback |-> <<>>,
     matched |-> EmptyMap]

InitCtl ==
    /\ ctl = NewController(FALSE, StartTs)
    /\ res = [op |-> "none"]
    /\ lk = [pc |-> "idle"]
    /\ mt = newMatcher
    /\ hs = [pc |-> "idle"]
    /\ gc = [gen |-> 0, updated |-> {}]

InitDB ==
    /\ db = NewReplicaSetDB
    /\ nextID = 1
    /\ fatal = FALSE
    /\ InitOp
    /\ InitNoEvent
    /\ InitCtl

AddAbsentReplicaSet(schemaID, span, checkpointTs) ==
    /\ ~fatal
    /\ db' = Collect(addAbsentReplicaSetUnLock(
                NewObject(db, nextID, NewReplicaSet(schemaID, span, checkpointTs)), nextID))
    /\ nextID' = nextID + 1
    /\ UNCHANGED <<fatal, opVars, beVars, call, ctlVars, mt, hsVars>>

AddReplicatingSpan(schemaID, span, checkpointTs, node) ==
    /\ ~fatal
    /\ db' = Collect(AddReplicatingSpanDB(
                NewObject(db, nextID, NewWorkingReplicaSet(schemaID, span, checkpointTs, node)),
                nextID))
    /\ nextID' = nextID + 1
    /\ UNCHANGED <<fatal, opVars, beVars, call, ctlVars, mt, hsVars>>

\* MarkSpanAbsent calling the wrong tracker method
MarkSpanAbsent_Scheduling(id) ==
    /\ ~fatal
    /\ db' = Collect(MarkSchedulingWithoutLock(db, id))
    /\ UNCHANGED <<nextID, fatal, opVars, beVars, call, ctlVars, mt, hsVars>>

MarkSpanAbsent(id) ==
    /\ ~fatal
    /\ db' = Collect(MarkAbsentWithoutLock(db, id))
    /\ UNCHANGED <<nextID, fatal, opVars, beVars, call, ctlVars, mt, hsVars>>

MarkSpanScheduling(id) ==
    /\ ~fatal
    /\ db' = Collect(MarkSchedulingWithoutLock(db, id))
    /\ UNCHANGED <<nextID, fatal, opVars, beVars, call, ctlVars, mt, hsVars>>

MarkSpanReplicating(id) ==
    /\ ~fatal
    /\ db' = Collect(MarkReplicatingWithoutLock(db, id))
    /\ UNCHANGED <<nextID, fatal, opVars, beVars, call, ctlVars, mt, hsVars>>

BindSpanToNode(old, new, id) ==
    /\ ~fatal
    /\ db' = Collect(BindReplicaToNodeWithoutLock(db, old, new, id))
    /\ UNCHANGED <<nextID, fatal, opVars, beVars, call, ctlVars, mt, hsVars>>

ForceRemove(id) ==
    /\ ~fatal
    /\ db' = Collect(ForceRemoveDB(db, id))
    /\ UNCHANGED <<nextID, fatal, opVars, beVars, call, ctlVars, mt, hsVars>>

UpdateSchemaID(tableID, newSchemaID) ==
    /\ ~fatal
    /\ db' = Collect(UpdateSchemaIDDB(db, tableID, newSchemaID))
    /\ UNCHANGED <<nextID, fatal, opVars, beVars, call, ctlVars, mt, hsVars>>

ReplaceReplicaSet(olds, newSpans, checkpointTs) ==
    /\ ~fatal
    /\ LET r == ReplaceReplicaSetDB(db, olds, newSpans, checkpointTs, nextID)
       IN  /\ db' = Collect(r.db)
           /\ fatal' = r.fatal
           /\ nextID' = IF r.fatal THEN nextID ELSE nextID + Len(newSpans)
    /\ UNCHANGED <<opVars, beVars, call, ctlVars, mt, hsVars>>

TryRemoveAll ==
    /\ ~fatal
    /\ db' = Collect(TryRemoveAllDB(db))
    /\ UNCHANGED <<nextID, fatal, opVars, beVars, call, ctlVars, mt, hsVars>>

TryRemoveByTableIDs(tableIDs) ==
    /\ ~fatal
    /\ db' = Collect(TryRemoveByTableIDsDB(db, tableIDs))
    /\ UNCHANGED <<nextID, fatal, opVars, beVars, call, ctlVars, mt, hsVars>>

TryRemoveBySchemaID(schemaID) ==
    /\ ~fatal
    /\ db' = Collect(TryRemoveBySchemaIDDB(db, schemaID))
    /\ UNCHANGED <<nextID, fatal, opVars, beVars, call, ctlVars, mt, hsVars>>

(***************************************************************************)
(* Spec: every sequence of mutations of the Replication DB.  Callers hold  *)
(* pointers to the schedulable spans of the DB (operators and schedulers   *)
(* take them from the DB's own snapshots); ids, table ids and schema ids   *)
(* are plain values and range over everything, the DDL span's included.    *)
(* A rename names a physical table, so UpdateSchemaID gets user table ids. *)
(***************************************************************************)
Schedulable == db.allTasks \ {ddlSpanID}

\* the ways the splitter cuts a whole-table span: not at all, or in two at a key
SplitsOf(tableID) ==
    {<<TableIDToComparableSpan(tableID)>>}
        \cup {<<TableSpan(tableID, 0, m), TableSpan(tableID, m, KeyMax)>> : m \in 1..(KeyMax - 1)}

\* the lists of olds a split or merge hands over: nothing, one span, two spans
OldLists ==
    {<<>>} \cup {<<a>> : a \in NewIDs} \cup {<<a, b>> : a \in NewIDs, b \in NewIDs}

\* the splitter cuts the table of the first old
TableOf(olds) ==
    IF Len(olds) > 0 /\ olds[1] \in DOMAIN db.spans THEN db.spans[olds[1]].tableID ELSE 1

NextDB ==
    \/ /\ nextID <= MaxID
       /\ \E t \in TableIDs, s \in SchemaIDs :
            AddAbsentReplicaSet(s, TableIDToComparableSpan(t), StartTs)
    \/ /\ nextID <= MaxID
       /\ \E t \in TableIDs, s \in SchemaIDs, n \in Nodes :
            AddReplicatingSpan(s, TableIDToComparableSpan(t), StartTs, n)
    \/ \E id \in Schedulable : MarkSpanAbsent(id)
    \/ \E id \in Schedulable : MarkSpanScheduling(id)
    \/ \E id \in Schedulable : MarkSpanReplicating(id)
    \/ \E id \in Schedulable, n \in Nodes : BindSpanToNode(GetNodeID(db, id), n, id)
    \/ \E id \in AnyIDs : ForceRemove(id)
    \/ \E t \in TableIDs, s \in SchemaIDs : UpdateSchemaID(t, s)
    \/ \E olds \in OldLists : \E news \in SplitsOf(TableOf(olds)) :
            /\ nextID + Len(news) - 1 <= MaxID
            /\ ReplaceReplicaSet(olds, news, StartTs)
    \/ TryRemoveAll
    \/ \E ts \in SUBSET AnyTableIDs : TryRemoveByTableIDs(ts)
    \/ \E s \in AnySchemaIDs : TryRemoveBySchemaID(s)

Spec == InitDB /\ [][NextDB]_vars

(***************************************************************************)
(* Properties of the Replication DB.                                       *)
(***************************************************************************)
Partitions == db.absent \cup db.scheduling \cup db.replicating

\* C1: in every reachable state |allTasks| = |absent| + |scheduling| + |replicating| + 1,
\* the three partitions pairwise disjoint, the +1 being the DDL span.
C1_TaskCount ==
    /\ Cardinality(db.allTasks)
         = Cardinality(db.absent) + Cardinality(db.scheduling) + Cardinality(db.replicating) + 1
    /\ db.absent \cap db.scheduling = {}
    /\ db.absent \cap db.replicating = {}
    /\ db.scheduling \cap db.replicating = {}

\* the keys of an index whose inner map holds the span
KeysHolding(m, id) == {k \in DOMAIN m : id \in m[k]}

\* C2: every span of allTasks but the DDL span is in exactly one inner map of tableTasks,
\* the one of its table id, and in exactly one inner map of schemaTasks, the one of its
\* current schema id; no index holds a span that is not in allTasks; no inner map is empty.
C2_IndexConsistent ==
    /\ \A id \in db.allTasks \ {ddlSpanID} :
         /\ KeysHolding(db.tableTasks, id) = {db.spans[id].tableID}
         /\ KeysHolding(db.schemaTasks, id) = {db.spans[id].schemaID}
    /\ \A k \in DOMAIN db.tableTasks :
         db.tableTasks[k] # {} /\ db.tableTasks[k] \subseteq db.allTasks
    /\ \A k \in DOMAIN db.schemaTasks :
         db.schemaTasks[k] # {} /\ db.schemaTasks[k] \subseteq db.allTasks

\* two spans of one table under two schemas, after a span of another key was removed
C2_Witness ==
    /\ nextID > MaxID
    /\ \E a \in Schedulable, b \in Schedulable :
         /\ db.spans[a].tableID # db.spans[b].tableID
         /\ db.spans[a].schemaID = db.spans[b].schemaID
         /\ Cardinality(DOMAIN db.schemaTasks) = 2
         /\ ddlSpanID \in db.allTasks

\* C3: the DDL span is always present: GetTaskByID(ddlSpan.ID) returns it after any
\* sequence of mutations, and it is in none of the three partitions.
C3_DDLAlwaysPresent ==
    /\ GetTaskByID(db, ddlSpanID) = {ddlSpanID}
    /\ ddlSpanID \notin Partitions

maxTry == 2

\* NewMoveOperator(replication, origin, dest): a fresh, unsent operator
NewMoveOperator(id, origin, dest) ==
    [id |-> id, origin |-> origin, dest |-> dest, sent |-> FALSE, finished |-> FALSE]

\* the queue positions holding an operator for the span id
OperatorsOf(q, o, id) == {i \in DOMAIN q : o[q[i]].id = id}
\* GetOperator(spanID): is there an operator for the span
HasOperator(q, o, id) == OperatorsOf(q, o, id) # {}
OperatorSize(q) == Len(q)

\* AddOperator that enqueues whatever it is given
AddOperator_NoCheck(q, o, h) == Append(q, h)

\* AddOperator(op): log and drop when the span already has an operator,
\* enqueue otherwise; one critical section of the controller
AddOperator(q, o, h) == IF HasOperator(q, o, o[h].id) THEN q ELSE Append(q, h)

\* moveTable up to and including NewMoveOperator: the table exists, the
\* target node is alive, the table has exactly one replication
moveTable_NewMoveOperator(c, tableId, targetNode) ==
    /\ ~fatal
    /\ mv[c].pc = "start"
    /\ LET replications == GetTasksByTableIDs(db, {tableId})
       IN  IF ~IsTableExists(db, tableId)
           THEN /\ mv' = [mv EXCEPT ![c].pc = "done", ![c].err = "ErrTableIsNotFounded"]
                /\ UNCHANGED ops
           ELSE IF targetNode \notin Nodes
           THEN /\ mv' = [mv EXCEPT ![c].pc = "done", ![c].err = "ErrNodeIsNotFound"]
                /\ UNCHANGED ops
           ELSE IF Cardinality(replications) # 1
           THEN /\ mv' = [mv EXCEPT ![c].pc = "done", ![c].err = "ErrTableIsNotFounded"]
                /\ UNCHANGED ops
           ELSE LET id == CHOOSE r \in replications : TRUE
                IN  /\ ops' = [h \in DOMAIN ops \cup {c} |->
                                 IF h = c THEN NewMoveOperator(id, GetNodeID(db, id), targetNode)
                                 ELSE ops[h]]
                    /\ mv' = [mv EXCEPT ![c].pc = "created"]
    /\ UNCHANGED <<dbVars, runningQueue, beVars, call, ctlVars, mt, hsVars>>

\* c.operatorController.AddOperator(op)
moveTable_AddOperator(c) ==
    /\ ~fatal
    /\ mv[c].pc = "created"
    /\ runningQueue' = AddOperator(runningQueue, ops, c)
    /\ mv' = [mv EXCEPT ![c].pc = "wait",
                        ![c].added = ~HasOperator(runningQueue, ops, ops[c].id)]
    /\ UNCHANGED <<dbVars, ops, beVars, call, ctlVars, mt, hsVars>>

\* a wait loop whose timeout is reported as success
moveTable_Wait_Nil(c) ==
    /\ ~fatal
    /\ mv[c].pc = "wait"
    /\ IF ~ops[c].finished /\ mv[c].count < maxTry
       THEN mv' = [mv EXCEPT ![c].count = @ + 1]
       ELSE mv' = [mv EXCEPT ![c].pc = "done", ![c].count = 0, ![c].err = "nil"]
    /\ UNCHANGED <<dbVars, ops, runningQueue, beVars, call, ctlVars, mt, hsVars>>

\* one evaluation of the wait loop's condition, and the return behind it
moveTable_Wait(c) ==
    /\ ~fatal
    /\ mv[c].pc = "wait"
    /\ IF ~ops[c].finished /\ mv[c].count < maxTry
       THEN mv' = [mv EXCEPT ![c].count = @ + 1]
       ELSE mv' = [mv EXCEPT ![c].pc = "done", ![c].count = 0,
                             ![c].err = IF ops[c].finished THEN "nil" ELSE "ErrMoveTableTimeout"]
    /\ UNCHANGED <<dbVars, ops, runningQueue, beVars, call, ctlVars, mt, hsVars>>

\* UpdateOperatorStatus(spanID, from, Working): the matching operator, once
\* sent, finishes when its target node reports the span working
UpdateOperatorStatus(id, from) ==
    /\ ~fatal
    /\ ops' = [h \in DOMAIN ops |->
                 IF /\ \E i \in DOMAIN runningQueue : runningQueue[i] = h
                    /\ ops[h].id = id /\ ops[h].dest = from /\ ops[h].sent
                 THEN [ops[h] EXCEPT !.finished = TRUE] ELSE ops[h]]
    /\ UNCHANGED <<dbVars, runningQueue, mv, beVars, call, ctlVars, mt, hsVars>>

\* the post-action of a finished move: the span replicates on the target
PostFinish(d, op) ==
    IF op.id \in d.allTasks
    THEN MarkReplicatingWithoutLock(BindReplicaToNodeWithoutLock(d, op.origin, op.dest, op.id), op.id)
    ELSE d

RECURSIVE PostFinishAll(_, _, _, _)
PostFinishAll(d, q, o, i) ==
    IF i > Len(q) THEN d
    ELSE PostFinishAll(IF o[q[i]].finished THEN PostFinish(d, o[q[i]]) ELSE d, q, o, i + 1)

\* the controller's tick: send every unsent operator, drop the finished
\* ones and apply their post-action to the DB
Execute ==
    /\ ~fatal
    /\ runningQueue # <<>>
    /\ db' = Collect(PostFinishAll(db, runningQueue, ops, 1))
    /\ runningQueue' = SelectSeq(runningQueue, LAMBDA h : ~ops[h].finished)
    /\ ops' = [h \in DOMAIN ops |->
                 IF \E i \in DOMAIN runningQueue : runningQueue[i] = h
                 THEN [ops[h] EXCEPT !.sent = TRUE] ELSE ops[h]]
    /\ UNCHANGED <<nextID, fatal, mv, beVars, call, ctlVars, mt, hsVars>>

\* node ids a caller of moveTable may name, alive or not
AnyNodes == Nodes \cup {"n3"}

NextOp ==
    \/ /\ nextID <= MaxID
       /\ \E t \in TableIDs, n \in Nodes :
             AddReplicatingSpan(1, TableIDToComparableSpan(t), StartTs, n)
    \/ \E c \in Calls, t \in TableIDs, n \in AnyNodes : moveTable_NewMoveOperator(c, t, n)
    \/ \E c \in Calls : moveTable_AddOperator(c)
    \/ \E c \in Calls : moveTable_Wait(c)
    \/ \E id \in Schedulable, n \in Nodes : UpdateOperatorStatus(id, n)
    \/ Execute

SpecOp == InitDB /\ [][NextOp]_vars

\* C5: in every state the queue holds at most one operator per span id, and
\* an AddOperator for a span that has an operator leaves queue and
\* operators as they were
C5_OneOperatorPerSpan ==
    /\ [](\A id \in AnyIDs : Cardinality(OperatorsOf(runningQueue, ops, id)) <= 1)
    /\ [][\A c \in Calls :
            (moveTable_AddOperator(c) /\ HasOperator(runningQueue, ops, ops[c].id))
               => UNCHANGED <<runningQueue, ops>>]_vars

\* two invocations built an operator for the same span; the second
\* AddOperator was dropped while the first operator is in the queue
C5_Witness ==
    \E c1 \in Calls, c2 \in Calls :
        /\ c1 # c2
        /\ mv[c1].pc = "wait" /\ mv[c1].added
        /\ mv[c2].pc = "wait" /\ ~mv[c2].added
        /\ ops[c1].id = ops[c2].id
        /\ runningQueue = <<c1>>

(***************************************************************************)
(* The range checkers of a barrier event.  The count checker expects a     *)
(* number of distinct table ids; the span checker keeps, for every         *)
(* expected table id, the part of the table's key range reported so far    *)
(* (the set of unit ranges [k, k+1) covered).                              *)
(***************************************************************************)
NewTableCountChecker(n) ==
    [kind |-> "count", needCount |-> n, reportedMap |-> {}, tableSpans |-> <<>>]

NewTableSpanRangeChecker(tableIDs) ==
    [kind |-> "span", needCount |-> 0, reportedMap |-> {},
     tableSpans |-> [t \in tableIDs |-> {}]]

\* a count checker that forgets a table id when it is reported again
AddSubRange_Toggle(rc, tableID, startKey, endKey) ==
    IF rc.kind = "count"
    THEN [rc EXCEPT !.reportedMap = (@ \ {tableID}) \cup ({tableID} \ @)]
    ELSE IF tableID \in DOMAIN rc.tableSpans
         THEN [rc EXCEPT !.tableSpans[tableID] = @ \cup (startKey .. endKey - 1)]
         ELSE rc

AddSubRange(rc, tableID, startKey, endKey) ==
    IF rc.kind = "count"
    THEN [rc EXCEPT !.reportedMap = @ \cup {tableID}]
    ELSE IF tableID \in DOMAIN rc.tableSpans
         THEN [rc EXCEPT !.tableSpans[tableID] = @ \cup (startKey .. endKey - 1)]
         ELSE rc

IsFullyCovered(rc) ==
    IF rc.kind = "count"
    THEN Cardinality(rc.reportedMap) = rc.needCount
    ELSE \A t \in DOMAIN rc.tableSpans : rc.tableSpans[t] = 0 .. KeyMax - 1

Reset(rc) ==
    [rc EXCEPT !.reportedMap = {}, !.tableSpans = [t \in DOMAIN rc.tableSpans |-> {}]]

(***************************************************************************)
(* BarrierEvent.                                                           *)
(***************************************************************************)
\* time.Second, the clock counting half seconds; the zero time.Time is a
\* second or more before any now
Second == 2
ZeroTime == 0 - Second
\* the zero common.DispatcherID
NoDispatcher == 0 - 1

\* the elements of a sequence
Range(seq) == {seq[i] : i \in DOMAIN seq}

\* heartbeatpb.InfluencedTables
InfluencedTables(influenceType, tableIDs, schemaID) ==
    [InfluenceType |-> influenceType, TableIDs |-> tableIDs, SchemaID |-> schemaID]

\* heartbeatpb.State of a blocked dispatcher
State(blockTs, isSyncPoint, blockTables) ==
    [BlockTs |-> blockTs, IsSyncPoint |-> isSyncPoint, BlockTables |-> blockTables]

\* the table ids of a DB snapshot
tbls_NoSentinel(d, reps) == {d.spans[id].tableID : id \in reps}

\* tbls of NewBlockEvent: the table id of every rep, then the DDL span's
tbls(d, reps) == {d.spans[id].tableID : id \in reps} \cup {DDLTableID}

\* DB influence without split counting the spans of the schema only
dbNeedCount_NoTrigger(d, schemaID) == GetTaskSizeBySchemaID(d, schemaID)

\* DB influence without split: the spans of the schema and the table trigger dispatcher
dbNeedCount(d, schemaID) == GetTaskSizeBySchemaID(d, schemaID) + 1

\* the switch of NewBlockEvent
newRangeChecker(d, blockTables, dynamicSplitEnabled) ==
    CASE blockTables.InfluenceType = "Normal" ->
            IF dynamicSplitEnabled
            THEN NewTableSpanRangeChecker(Range(blockTables.TableIDs))
            ELSE NewTableCountChecker(Len(blockTables.TableIDs))
      [] blockTables.InfluenceType = "DB" ->
            IF dynamicSplitEnabled
            THEN NewTableSpanRangeChecker(tbls(d, GetTasksBySchemaID(d, blockTables.SchemaID)))
            ELSE NewTableCountChecker(dbNeedCount(d, blockTables.SchemaID))
      [] blockTables.InfluenceType = "All" ->
            IF dynamicSplitEnabled
            THEN NewTableSpanRangeChecker(tbls(d, GetAllTasks(d)))
            ELSE NewTableCountChecker(TaskSize(d))

NewBlockEventOf(d, status, dynamicSplitEnabled, t) ==
    [created |-> TRUE,
     selected |-> FALSE,
     commitTs |-> status.BlockTs,
     blockedDispatchers |-> status.BlockTables,
     lastResendTime |-> ZeroTime,
     isSyncPoint |-> status.IsSyncPoint,
     dynamicSplitEnabled |-> dynamicSplitEnabled,
     lastWarningLogTime |-> t,
     tableTriggerDispatcherRelated |-> FALSE,
     writerDispatcher |-> NoDispatcher,
     writerDispatcherAdvanced |-> FALSE,
     rangeChecker |-> newRangeChecker(d, status.BlockTables, dynamicSplitEnabled)]

\* be.action(action)
action_NoSyncPoint(e, a) == [Action |-> a, CommitTs |-> e.commitTs, IsSyncPoint |-> FALSE]

action(e, a) == [Action |-> a, CommitTs |-> e.commitTs, IsSyncPoint |-> e.isSyncPoint]

\* heartbeatpb.DispatcherStatus; DispatcherIDs is a list the code appends to,
\* kept as a bag: how often each id is listed (the order is a map's)
DispatcherStatus(act, influenceType, dispatcherIDs, schemaID, exclude) ==
    [Action |-> act,
     InfluencedDispatchers |-> [InfluenceType |-> influenceType,
                                DispatcherIDs |-> dispatcherIDs,
                                SchemaID |-> schemaID,
                                ExcludeDispatcherId |-> exclude]]

\* the writer of a Normal event being the first dispatcher of the batch
electWriter_First(e, dispatchers) ==
    IF e.blockedDispatchers.InfluenceType \in {"DB", "All"} THEN ddlSpanID
    ELSE IF e.tableTriggerDispatcherRelated THEN ddlSpanID
    ELSE dispatchers[1]

\* the switch of onAllDispatcherReportedBlockEvent
electWriter(e, dispatchers) ==
    IF e.blockedDispatchers.InfluenceType \in {"DB", "All"} THEN ddlSpanID
    ELSE IF e.tableTriggerDispatcherRelated THEN ddlSpanID
    ELSE dispatchers[Len(dispatchers)]

\* the event after onAllDispatcherReportedBlockEvent(dispatchers), and what it returns
onAllDispatcherReportedBlockEvent(e, dispatchers) ==
    LET e1 == [e EXCEPT !.rangeChecker = Reset(@),
                        !.selected = TRUE,
                        !.writerDispatcher = electWriter(e, dispatchers)]
    IN  [ev |-> e1,
         ret |-> DispatcherStatus(action(e1, "Write"), "Normal",
                                  SetToBag({e1.writerDispatcher}), 0, NoDispatcher)]

\* markDispatcherEventDone that reports the whole table of the span
markDispatcherEventDone_WholeTable(e, d, dispatcherID) ==
    IF GetTaskByID(d, dispatcherID) = {}
    THEN e
    ELSE [e EXCEPT !.rangeChecker =
              AddSubRange(@, d.spans[dispatcherID].tableID, 0, KeyMax)]

markDispatcherEventDone(e, d, dispatcherID) ==
    IF GetTaskByID(d, dispatcherID) = {}
    THEN e
    ELSE [e EXCEPT !.rangeChecker =
              AddSubRange(@, d.spans[dispatcherID].tableID,
                          d.spans[dispatcherID].startKey, d.spans[dispatcherID].endKey)]

allDispatcherReported(e) == IsFullyCovered(e.rangeChecker)

\* messaging.NewSingleTargetMessage(capture, HeartbeatCollectorTopic, response)
TargetMessage(capture, status) == [To |-> capture, DispatcherStatuses |-> <<status>>]

newWriterActionMessage(e, capture) ==
    TargetMessage(capture,
        DispatcherStatus(action(e, "Write"), "Normal", SetToBag({e.writerDispatcher}), 0,
                         NoDispatcher))

\* a Pass message that does not name the writer
newPassActionMessage_NoExclude(e, capture) ==
    TargetMessage(capture,
        DispatcherStatus(action(e, "Pass"), e.blockedDispatchers.InfluenceType, EmptyBag,
                         e.blockedDispatchers.SchemaID, NoDispatcher))

newPassActionMessage(e, capture) ==
    TargetMessage(capture,
        DispatcherStatus(action(e, "Pass"), e.blockedDispatchers.InfluenceType, EmptyBag,
                         e.blockedDispatchers.SchemaID, e.writerDispatcher))

\* Controller.GetAllNodes: the alive nodes
GetAllNodes == Nodes

\* GetTasksByTableIDs(tableIDs...) as the list the code builds: the tasks of
\* tableTasks[tableID] are appended for each element of tableIDs in turn, so a
\* task is in the list once per occurrence of its table id
TasksByTableIDs(d, tableIDs) ==
    [id \in GetTasksByTableIDs(d, Range(tableIDs)) |->
        Cardinality({i \in DOMAIN tableIDs : id \in MapGet(d.tableTasks, tableIDs[i])})]

\* the Normal case: msgMap is keyed by the node id of each listed task other
\* than the writer, and the task's id is appended to its node's message
passNormal(e, d) ==
    LET tasks == TasksByTableIDs(d, e.blockedDispatchers.TableIDs)
        stms == DOMAIN tasks \ {e.writerDispatcher}
    IN  {[newPassActionMessage(e, n) EXCEPT
             !.DispatcherStatuses[1].InfluencedDispatchers.DispatcherIDs =
                 [id \in {x \in stms : GetNodeID(d, x) = n} |-> tasks[id]]] :
         n \in {GetNodeID(d, id) : id \in stms}}

sendPassAction(e, d) ==
    CASE e.blockedDispatchers.InfluenceType = "DB" ->
            {newPassActionMessage(e, n) :
                n \in {GetNodeID(d, id) : id \in GetTasksBySchemaID(d, e.blockedDispatchers.SchemaID)}
                      \ {NoNode}}
      [] e.blockedDispatchers.InfluenceType = "All" ->
            {newPassActionMessage(e, n) : n \in GetAllNodes}
      [] e.blockedDispatchers.InfluenceType = "Normal" -> passNormal(e, d)

\* the diagnostic warning is due after ten seconds
WarnInterval == 10 * Second

\* the deferred function of resend
resendDeferred(e, t) ==
    IF t - e.lastWarningLogTime > WarnInterval THEN [e EXCEPT !.lastWarningLogTime = t] ELSE e

\* resend that releases the other dispatchers as soon as a writer is selected
resendOf_PassFirst(e, d, t) ==
    IF t - e.lastResendTime < Second THEN [ev |-> e, msgs |-> {}]
    ELSE IF ~e.selected THEN [ev |-> resendDeferred(e, t), msgs |-> {}]
    ELSE [ev |-> resendDeferred([e EXCEPT !.lastResendTime = t], t), msgs |-> sendPassAction(e, d)]

\* resend with the warning deferred before the rate limit is tested
resendOf_DeferFirst(e, d, t) ==
    IF t - e.lastResendTime < Second THEN [ev |-> resendDeferred(e, t), msgs |-> {}]
    ELSE IF ~e.selected THEN [ev |-> resendDeferred(e, t), msgs |-> {}]
    ELSE LET e1 == [e EXCEPT !.lastResendTime = t]
         IN  [ev |-> resendDeferred(e1, t),
              msgs |-> IF ~e1.writerDispatcherAdvanced
                       THEN IF \/ GetTaskByID(d, e1.writerDispatcher) = {}
                               \/ GetNodeID(d, e1.writerDispatcher) = NoNode
                            THEN {}
                            ELSE {newWriterActionMessage(e1, GetNodeID(d, e1.writerDispatcher))}
                       ELSE sendPassAction(e1, d)]

\* resend that hands the write to the table trigger dispatcher when the
\* writer is gone
resendOf_Reelect(e, d, t) ==
    IF t - e.lastResendTime < Second THEN [ev |-> e, msgs |-> {}]
    ELSE IF ~e.selected THEN [ev |-> resendDeferred(e, t), msgs |-> {}]
    ELSE LET e1 == [e EXCEPT !.lastResendTime = t]
         IN  IF ~e1.writerDispatcherAdvanced
             THEN IF \/ GetTaskByID(d, e1.writerDispatcher) = {}
                     \/ GetNodeID(d, e1.writerDispatcher) = NoNode
                  THEN [ev |-> resendDeferred([e1 EXCEPT !.writerDispatcher = ddlSpanID], t),
                        msgs |-> {newWriterActionMessage(
                                     [e1 EXCEPT !.writerDispatcher = ddlSpanID], DDLNode)}]
                  ELSE [ev |-> resendDeferred(e1, t),
                        msgs |-> {newWriterActionMessage(e1, GetNodeID(d, e1.writerDispatcher))}]
             ELSE [ev |-> resendDeferred(e1, t), msgs |-> sendPassAction(e1, d)]

\* the event after be.resend() at time t, and the messages it returns
resendOf(e, d, t) ==
    IF t - e.lastResendTime < Second THEN [ev |-> e, msgs |-> {}]
    ELSE IF ~e.selected THEN [ev |-> resendDeferred(e, t), msgs |-> {}]
    ELSE LET e1 == [e EXCEPT !.lastResendTime = t]
         IN  IF ~e1.writerDispatcherAdvanced
             THEN IF \/ GetTaskByID(d, e1.writerDispatcher) = {}
                     \/ GetNodeID(d, e1.writerDispatcher) = NoNode
                  THEN [ev |-> resendDeferred(e1, t), msgs |-> {}]
                  ELSE [ev |-> resendDeferred(e1, t),
                        msgs |-> {newWriterActionMessage(e1, GetNodeID(d, e1.writerDispatcher))}]
             ELSE [ev |-> resendDeferred(e1, t), msgs |-> sendPassAction(e1, d)]

(***************************************************************************)
(* The barrier's handling of one event: a heartbeat request carries the    *)
(* block states of a batch of dispatchers; a report of the table trigger   *)
(* dispatcher flags the event, every report before the selection is marked *)
(* done, and when the batch completes the coverage the writer is elected.  *)
(***************************************************************************)
NewBlockEvent(status, dynamicSplitEnabled) ==
    /\ ~fatal
    /\ ~ev.created
    /\ ev' = NewBlockEventOf(db, status, dynamicSplitEnabled, now)
    /\ out' = [ret |-> {}, msgs |-> {}]
    /\ UNCHANGED <<dbVars, opVars, call, now, rp, sent, ctlVars, mt, hsVars>>

handleBlockState(e, d, dispatcherID) ==
    LET e1 == IF dispatcherID = ddlSpanID
              THEN [e EXCEPT !.tableTriggerDispatcherRelated = TRUE] ELSE e
    IN  IF e1.selected THEN e1 ELSE markDispatcherEventDone(e1, d, dispatcherID)

RECURSIVE handleBlockStates(_, _, _, _)
handleBlockStates(e, d, batch, i) ==
    IF i > Len(batch) THEN e
    ELSE handleBlockStates(handleBlockState(e, d, batch[i]), d, batch, i + 1)

Barrier_HandleStatus(batch) ==
    /\ ~fatal
    /\ ev.created
    /\ LET e1 == handleBlockStates(ev, db, batch, 1)
       IN  IF ~e1.selected /\ allDispatcherReported(e1)
           THEN LET r == onAllDispatcherReportedBlockEvent(e1, batch)
                IN  /\ ev' = r.ev
                    /\ out' = [ret |-> {r.ret}, msgs |-> {}]
           ELSE /\ ev' = e1
                /\ out' = [ret |-> {}, msgs |-> {}]
    /\ UNCHANGED <<dbVars, opVars, call, now, rp, sent, ctlVars, mt, hsVars>>

\* the writer's status shows its checkpoint past the commit ts
Barrier_HandleEventDone(dispatcherID) ==
    /\ ~fatal
    /\ ev.created
    /\ ev.selected
    /\ dispatcherID = ev.writerDispatcher
    /\ ev' = [ev EXCEPT !.writerDispatcherAdvanced = TRUE]
    /\ out' = [ret |-> {}, msgs |-> {}]
    /\ UNCHANGED <<dbVars, opVars, call, now, rp, sent, ctlVars, mt, hsVars>>

resend ==
    /\ ~fatal
    /\ ev.created
    /\ LET r == resendOf(ev, db, now)
       IN  /\ ev' = r.ev
           /\ out' = [ret |-> {}, msgs |-> r.msgs]
           /\ sent' = IF r.msgs # {} THEN {now} ELSE sent
    /\ UNCHANGED <<dbVars, opVars, call, now, rp, ctlVars, mt, hsVars>>

\* the clock starts when the event is created and runs for MaxTime seconds;
\* the barrier is called once a second
MaxTime == 1

Tick ==
    /\ ev.created
    /\ now < MaxTime * Second
    /\ now' = now + Second
    /\ UNCHANGED <<dbVars, opVars, call, ev, out, rp, sent, ctlVars, mt, hsVars>>

\* the ranges of the spans nodes report at bootstrap: a table whole or halved
SubSpans(tableID) ==
    {TableSpan(tableID, 0, KeyMax), TableSpan(tableID, 0, 1), TableSpan(tableID, 1, KeyMax)}

\* the block states dispatchers report; nothing keeps a table id from being
\* listed twice
BlockTables ==
    {InfluencedTables("Normal", <<1>>, 0), InfluencedTables("Normal", <<1, 2>>, 0),
     InfluencedTables("Normal", <<1, 1>>, 0),
     InfluencedTables("DB", <<>>, 1), InfluencedTables("All", <<>>, 0)}
\* a sync point blocks every table
Statuses ==
    {State(StartTs + 1, FALSE, bt) : bt \in BlockTables}
        \cup {State(StartTs + 1, TRUE, InfluencedTables("All", <<>>, 0))}

\* the dispatchers of one heartbeat request, in the order of its statuses
Batches ==
    {<<a>> : a \in AnyIDs}
        \cup {p \in ({ddlSpanID} \cup NewIDs) \X ({ddlSpanID} \cup NewIDs) : p[1] # p[2]}

\* The spans exist when the event is created; while it is in flight spans
\* only go away.
NextBarrier ==
    \/ /\ nextID <= MaxID
       /\ ~ev.created
       /\ \E t \in TableIDs, n \in Nodes : \E span \in SubSpans(t) :
             AddReplicatingSpan(1, span, StartTs, n)
    \/ /\ nextID <= MaxID
       /\ ~ev.created
       /\ \E t \in TableIDs, s \in SchemaIDs :
             AddAbsentReplicaSet(s, TableIDToComparableSpan(t), StartTs)
    \/ \E id \in Schedulable : ForceRemove(id)
    \/ \E status \in Statuses, split \in BOOLEAN : NewBlockEvent(status, split)
    \/ \E batch \in Batches : Barrier_HandleStatus(batch)
    \/ \E id \in AnyIDs : Barrier_HandleEventDone(id)
    \/ resend
    \/ Tick

SpecBarrier == InitDB /\ [][NextBarrier]_vars

\* the single status of a message, and messages by their action
StatusOf(m) == m.DispatcherStatuses[1]
IsPass(m) == StatusOf(m).Action.Action = "Pass"
\* a Write action for the dispatcher w only, sent to the node hosting w
IsWriteTo(m, w) ==
    /\ StatusOf(m).Action.Action = "Write"
    /\ StatusOf(m).InfluencedDispatchers.InfluenceType = "Normal"
    /\ StatusOf(m).InfluencedDispatchers.DispatcherIDs = SetToBag({w})
    /\ w \in db.allTasks
    /\ m.To = GetNodeID(db, w)

\* C6: a resend returns no message while the event is not selected, only a
\* Write action for the writer while it is selected and the writer has not
\* advanced, and Pass actions only once the writer has advanced; no Pass
\* action is ever out before the writer advanced
C6_WriteBeforePass ==
    /\ [][(ev.created /\ now' = now /\ resend) =>
            /\ ~ev.selected => out'.msgs = {}
            /\ (ev.selected /\ ~ev.writerDispatcherAdvanced) =>
                   \A m \in out'.msgs : IsWriteTo(m, ev.writerDispatcher)
            /\ ev.writerDispatcherAdvanced => \A m \in out'.msgs : IsPass(m)
            /\ (\E m \in out'.msgs : IsPass(m)) => ev.writerDispatcherAdvanced]_vars
    /\ []((\E m \in out.msgs : IsPass(m)) => (ev.selected /\ ev.writerDispatcherAdvanced))

\* the last resend returned Pass actions, the writer having advanced
C6_Witness ==
    /\ ev.created /\ ev.selected /\ ev.writerDispatcherAdvanced
    /\ \E m \in out.msgs : IsPass(m)

\* C7: the writer elected when a batch completes the coverage is the DDL
\* dispatcher for influence DB and All; for Normal it is the last dispatcher
\* of the batch, or the DDL dispatcher when tableTriggerDispatcherRelated
C7_WriterElection ==
    /\ []((ev.created /\ ev.selected /\ ev.blockedDispatchers.InfluenceType \in {"DB", "All"})
             => ev.writerDispatcher = ddlSpanID)
    /\ [][(/\ ev.created /\ ~ev.selected /\ ev'.selected
            /\ ev.blockedDispatchers.InfluenceType = "Normal") =>
              \A batch \in Batches :
                 Barrier_HandleStatus(batch) =>
                    IF ev'.tableTriggerDispatcherRelated
                    THEN ev'.writerDispatcher = ddlSpanID
                    ELSE ev'.writerDispatcher = batch[Len(batch)]]_vars

\* a Normal event over two tables elected a dispatcher other than the DDL one
C7_Witness ==
    /\ ev.created /\ ev.selected
    /\ ev.blockedDispatchers.InfluenceType = "Normal"
    /\ Len(ev.blockedDispatchers.TableIDs) = 2
    /\ ~ev.tableTriggerDispatcherRelated
    /\ ev.writerDispatcher \in NewIDs

\* C8: the call that elects the writer leaves the range checker reset, the
\* event selected with the writer recorded and not advanced, and returns one
\* Write action of influence Normal for the writer alone, with the event's
\* commit ts and isSyncPoint
C8_OnAllReported ==
    [][(ev.created /\ ~ev.selected /\ ev'.selected) =>
       \A batch \in Batches :
          Barrier_HandleStatus(batch) =>
             /\ ev'.rangeChecker.reportedMap = {}
             /\ \A t \in DOMAIN ev'.rangeChecker.tableSpans : ev'.rangeChecker.tableSpans[t] = {}
             /\ DOMAIN ev'.rangeChecker.tableSpans = DOMAIN ev.rangeChecker.tableSpans
             /\ ev'.writerDispatcher \in {ddlSpanID} \cup Range(batch)
             /\ ~ev.writerDispatcherAdvanced /\ ~ev'.writerDispatcherAdvanced
             /\ out'.msgs = {}
             /\ Cardinality(out'.ret) = 1
             /\ \A st \in out'.ret :
                   /\ st.Action.Action = "Write"
                   /\ st.Action.CommitTs = ev.commitTs
                   /\ st.Action.IsSyncPoint = ev.isSyncPoint
                   /\ st.InfluencedDispatchers.InfluenceType = "Normal"
                   /\ st.InfluencedDispatchers.DispatcherIDs = SetToBag({ev'.writerDispatcher})]_vars

\* a sync point event has just elected its writer and returned the action
C8_Witness ==
    /\ ev.created /\ ev.selected /\ ev.isSyncPoint
    /\ out.ret # {}
    /\ ~ev.writerDispatcherAdvanced

\* the table ids the span checker of a new event has to see, from the spans' own fields
ExpectedTables(d, bt) ==
    CASE bt.InfluenceType = "Normal" -> Range(bt.TableIDs)
      [] bt.InfluenceType = "DB" ->
            {d.spans[id].tableID : id \in {i \in d.allTasks : d.spans[i].schemaID = bt.SchemaID}}
                \cup {DDLTableID}
      [] bt.InfluenceType = "All" ->
            {d.spans[id].tableID : id \in d.allTasks} \cup {DDLTableID}

\* C9: with split enabled a new event's span checker expects the listed
\* table ids (Normal), the table ids of the schema's spans and the DDL
\* sentinel (DB), the table ids of all spans and the sentinel (All); a DB
\* or All event is covered only after the DDL dispatcher reported
C9_SpanCheckerSeed ==
    /\ [][(~ev.created /\ ev'.created) =>
          \A status \in Statuses :
            NewBlockEvent(status, TRUE) =>
               /\ ev'.rangeChecker.kind = "span"
               /\ DOMAIN ev'.rangeChecker.tableSpans = ExpectedTables(db, status.BlockTables)]_vars
    /\ []((/\ ev.created /\ ev.dynamicSplitEnabled
           /\ ev.blockedDispatchers.InfluenceType \in {"DB", "All"})
             => /\ DDLTableID \in DOMAIN ev.rangeChecker.tableSpans
                /\ (allDispatcherReported(ev) \/ ev.selected) => ev.tableTriggerDispatcherRelated)

\* an All event with split enabled over a user table and the sentinel got covered
C9_Witness ==
    /\ ev.created /\ ev.dynamicSplitEnabled /\ ev.selected
    /\ ev.blockedDispatchers.InfluenceType = "All"
    /\ Cardinality(DOMAIN ev.rangeChecker.tableSpans) >= 2
    /\ ev.tableTriggerDispatcherRelated

\* the number of table ids the count checker of a new event expects, from the spans' own fields
ExpectedCount(d, bt) ==
    CASE bt.InfluenceType = "Normal" -> Len(bt.TableIDs)
      [] bt.InfluenceType = "DB" ->
            Cardinality({i \in d.allTasks : d.spans[i].schemaID = bt.SchemaID}) + 1
      [] bt.InfluenceType = "All" -> Cardinality(d.allTasks \ {ddlSpanID}) + 1

\* C10: with split disabled a new event's count checker expects
\* len(tableIDs) (Normal), the number of the schema's spans plus one (DB),
\* the number of all spans, the DDL span among them (All); the expected
\* count never changes afterwards
C10_CountCheckerSize ==
    /\ [][(~ev.created /\ ev'.created) =>
          \A status \in Statuses :
            NewBlockEvent(status, FALSE) =>
               /\ ev'.rangeChecker.kind = "count"
               /\ ev'.rangeChecker.needCount = ExpectedCount(db, status.BlockTables)
               /\ (status.BlockTables.InfluenceType = "All"
                     => ev'.rangeChecker.needCount = TaskSize(db))]_vars
    /\ [][ev.created =>
            /\ ev'.rangeChecker.kind = ev.rangeChecker.kind
            /\ ev'.rangeChecker.needCount = ev.rangeChecker.needCount]_vars

\* a DB event without split whose expected count no longer matches the DB
C10_Witness ==
    /\ ev.created /\ ~ev.dynamicSplitEnabled
    /\ ev.blockedDispatchers.InfluenceType = "DB"
    /\ ev.rangeChecker.needCount >= 2
    /\ ev.rangeChecker.needCount # GetTaskSizeBySchemaID(db, ev.blockedDispatchers.SchemaID) + 1

(***************************************************************************)
(* Replay of heartbeat reports.  Beside the event that receives every      *)
(* request once, one copy receives the requests delivered so far a second  *)
(* time before the remaining ones, and one copy receives every report in   *)
(* a request of its own.                                                   *)
(***************************************************************************)
\* the event after the barrier handled one request for it
handleStatus(e, d, batch) ==
    LET e1 == handleBlockStates(e, d, batch, 1)
    IN  IF ~e1.selected /\ allDispatcherReported(e1)
        THEN onAllDispatcherReportedBlockEvent(e1, batch).ev
        ELSE e1

RECURSIVE handleRequests(_, _, _, _)
handleRequests(e, d, requests, i) ==
    IF i > Len(requests) THEN e
    ELSE handleRequests(handleStatus(e, d, requests[i]), d, requests, i + 1)

RECURSIVE handleSingly(_, _, _, _)
handleSingly(e, d, batch, i) ==
    IF i > Len(batch) THEN e
    ELSE handleSingly(handleStatus(e, d, <<batch[i]>>), d, batch, i + 1)

\* the number of requests a replay repeats
MaxHist == 2

Replay_NewBlockEvent(status, dynamicSplitEnabled) ==
    /\ ~fatal
    /\ ~ev.created
    /\ ev' = NewBlockEventOf(db, status, dynamicSplitEnabled, now)
    /\ rp' = [created |-> TRUE, replayed |-> ev', single |-> ev',
              hist |-> <<>>, done |-> FALSE, rest |-> FALSE]
    /\ UNCHANGED <<dbVars, opVars, call, now, out, sent, ctlVars, mt, hsVars>>

Replay_HandleStatus(batch) ==
    /\ ~fatal
    /\ ev.created
    /\ rp.done \/ Len(rp.hist) < MaxHist
    /\ ev' = handleStatus(ev, db, batch)
    /\ rp' = [rp EXCEPT !.replayed = handleStatus(@, db, batch),
                        !.single = handleSingly(@, db, batch, 1),
                        !.hist = IF rp.done THEN <<>> ELSE Append(@, batch),
                        !.rest = rp.done]
    /\ UNCHANGED <<dbVars, opVars, call, now, out, sent, ctlVars, mt, hsVars>>

\* the requests delivered so far arrive once more
Replay_Prefix ==
    /\ ~fatal
    /\ ev.created
    /\ ~rp.done
    /\ rp.hist # <<>>
    /\ rp' = [rp EXCEPT !.replayed = handleRequests(@, db, rp.hist, 1),
                        !.hist = <<>>,
                        !.done = TRUE]
    /\ UNCHANGED <<dbVars, opVars, call, ev, now, out, sent, ctlVars, mt, hsVars>>

NextReplay ==
    \/ /\ nextID <= MaxID
       /\ ~ev.created
       /\ \E t \in TableIDs : \E span \in SubSpans(t) :
             AddReplicatingSpan(1, span, StartTs, DDLNode)
    \/ \E id \in Schedulable : ForceRemove(id)
    \/ \E status \in Statuses, split \in BOOLEAN : Replay_NewBlockEvent(status, split)
    \/ \E batch \in Batches : Replay_HandleStatus(batch)
    \/ Replay_Prefix

SpecReplay == InitDB /\ [][NextReplay]_vars

\* two copies of an event agree on whether a writer is elected and on which
SameElection(e1, e2) ==
    /\ e1.selected = e2.selected
    /\ e1.writerDispatcher = e2.writerDispatcher

\* C11 as stated: neither a replay of the requests delivered so far nor
\* the grouping of the reports into requests changes (selected, writerDispatcher)
C11_ReplayAndGrouping ==
    rp.created => (SameElection(ev, rp.replayed) /\ SameElection(ev, rp.single))

\* C11: delivering the requests received so far a second time, and then
\* the remaining requests, gives the same (selected, writerDispatcher)
C11_ReplaySameElection ==
    rp.created => SameElection(ev, rp.replayed)

\* a Normal event elected a user dispatcher from a request that came after a replay
C11_Witness ==
    /\ rp.created /\ rp.done /\ rp.rest
    /\ ev.selected /\ rp.replayed.selected
    /\ ev.blockedDispatchers.InfluenceType = "Normal"
    /\ ev.writerDispatcher \in NewIDs
\* the dispatcher ids one message lists
ListedIn(m) == StatusOf(m).InfluencedDispatchers.DispatcherIDs

\* the spans of the blocked table ids other than the writer
PassScope(e, d) ==
    GetTasksByTableIDs(d, Range(e.blockedDispatchers.TableIDs)) \ {e.writerDispatcher}

\* C12: the Pass messages a resend returns for a Normal event whose writer
\* has advanced are one per node hosting a span of the blocked table ids
\* other than the writer; each lists every such dispatcher of its node
\* exactly once, and none lists the writer
C12_PassNormal ==
    [][(/\ ev.created /\ ev.writerDispatcherAdvanced
        /\ ev.blockedDispatchers.InfluenceType = "Normal"
        /\ now - ev.lastResendTime >= Second
        /\ resend) =>
          LET scope == PassScope(ev, db)
          IN  /\ {m.To : m \in out'.msgs} = {GetNodeID(db, id) : id \in scope} \ {NoNode}
              /\ \A m1, m2 \in out'.msgs : m1.To = m2.To => m1 = m2
              /\ \A m \in out'.msgs :
                     /\ IsPass(m)
                     /\ ListedIn(m) = SetToBag({id \in scope : GetNodeID(db, id) = m.To})
                     /\ ev.writerDispatcher \notin DOMAIN ListedIn(m)]_vars

\* C13: the Pass messages a resend returns once the writer has advanced are,
\* for influence DB, one per non-empty node hosting a span of the schema and,
\* for influence All, one per alive node; each carries the event's influence
\* type and schema id, no dispatcher id, and the writer as the excluded
\* dispatcher
C13_PassDBAll ==
    [][(/\ ev.created /\ ev.writerDispatcherAdvanced
        /\ ev.blockedDispatchers.InfluenceType \in {"DB", "All"}
        /\ now - ev.lastResendTime >= Second
        /\ resend) =>
          /\ {m.To : m \in out'.msgs} =
                 IF ev.blockedDispatchers.InfluenceType = "All" THEN GetAllNodes
                 ELSE {GetNodeID(db, id) :
                          id \in GetTasksBySchemaID(db, ev.blockedDispatchers.SchemaID)} \ {NoNode}
          /\ \A m1, m2 \in out'.msgs : m1.To = m2.To => m1 = m2
          /\ \A m \in out'.msgs :
                 /\ IsPass(m)
                 /\ Len(m.DispatcherStatuses) = 1
                 /\ StatusOf(m).InfluencedDispatchers.InfluenceType =
                        ev.blockedDispatchers.InfluenceType
                 /\ StatusOf(m).InfluencedDispatchers.SchemaID = ev.blockedDispatchers.SchemaID
                 /\ ListedIn(m) = EmptyBag
                 /\ StatusOf(m).InfluencedDispatchers.ExcludeDispatcherId = ev.writerDispatcher]_vars

\* Pass messages of a DB event are out while a span of the schema has no node
C13_Witness ==
    /\ ev.created /\ ev.writerDispatcherAdvanced
    /\ ev.blockedDispatchers.InfluenceType = "DB"
    /\ ev.lastResendTime = now
    /\ \E m \in out.msgs : IsPass(m) /\ StatusOf(m).InfluencedDispatchers.InfluenceType = "DB"
    /\ \E id \in GetTasksBySchemaID(db, ev.blockedDispatchers.SchemaID) :
           GetNodeID(db, id) = NoNode
    /\ \E id \in GetTasksBySchemaID(db, ev.blockedDispatchers.SchemaID) :
           GetNodeID(db, id) # NoNode

(***************************************************************************)
(* The resend loop against a clock of half seconds that runs past the      *)
(* interval of the diagnostic warning: one table, hosted or not, and one   *)
(* event.                                                                  *)
(***************************************************************************)
MaxClock == 21

Resend_Tick ==
    /\ ev.created
    /\ now < MaxClock
    /\ now' = now + 1
    /\ UNCHANGED <<dbVars, opVars, call, ev, out, rp, sent, ctlVars, mt, hsVars>>

ResendStatuses ==
    {State(StartTs + 1, FALSE, InfluencedTables("Normal", <<1>>, 0)),
     State(StartTs + 1, FALSE, InfluencedTables("All", <<>>, 0))}

NextResend ==
    \/ /\ nextID <= MaxID
       /\ ~ev.created
       /\ AddReplicatingSpan(1, TableIDToComparableSpan(1), StartTs, DDLNode)
    \/ /\ nextID <= MaxID
       /\ ~ev.created
       /\ AddAbsentReplicaSet(1, TableIDToComparableSpan(1), StartTs)
    \/ \E status \in ResendStatuses : NewBlockEvent(status, FALSE)
    \/ \E batch \in Batches : Barrier_HandleStatus(batch)
    \/ \E id \in AnyIDs : Barrier_HandleEventDone(id)
    \/ resend
    \/ Resend_Tick

SpecResend == InitDB /\ [][NextResend]_vars

\* C14: two resends of the event that both return messages are a second or
\* more apart, and a resend less than a second after lastResendTime returns
\* nothing and changes no field of the event
C14_ResendRateLimited ==
    [][(ev.created /\ now' = now /\ resend) =>
          /\ out'.msgs # {} => \A t \in sent : now - t >= Second
          /\ now - ev.lastResendTime < Second => (out'.msgs = {} /\ ev' = ev)]_vars

\* a resend half a second after one that returned messages returned nothing,
\* the warning being due
C14_Witness ==
    /\ ev.created /\ ev.selected
    /\ sent = {ev.lastResendTime}
    /\ now - ev.lastResendTime = 1
    /\ now - ev.lastWarningLogTime > WarnInterval
    /\ out.msgs = {}

(***************************************************************************)
(* The calls on the Replication DB one by one, each recorded with its      *)
(* arguments and its result.  A table's spans are in one schema: a new     *)
(* table is created in schema 1 and changes schema by UpdateSchemaID only. *)
(* The olds of a replacement are distinct spans.                           *)
(***************************************************************************)
MaxCallID == 3

CheckpointTss == {StartTs, StartTs + 1}

SchemaOfTable(d, tableID) ==
    IF MapGet(d.tableTasks, tableID) = {} THEN 1
    ELSE GetSchemaID(d, CHOOSE id \in d.tableTasks[tableID] : TRUE)

Call_AddAbsentReplicaSet(tableID, checkpointTs) ==
    /\ ~fatal
    /\ db' = Collect(addAbsentReplicaSetUnLock(
                NewObject(db, nextID,
                          NewReplicaSet(SchemaOfTable(db, tableID),
                                        TableIDToComparableSpan(tableID), checkpointTs)),
                nextID))
    /\ nextID' = nextID + 1
    /\ call' = [op |-> "AddAbsentReplicaSet", id |-> nextID, before |-> db]
    /\ UNCHANGED <<fatal, opVars, beVars, ctlVars, mt, hsVars>>

Call_AddReplicatingSpan(tableID, checkpointTs, node) ==
    /\ ~fatal
    /\ db' = Collect(AddReplicatingSpanDB(
                NewObject(db, nextID,
                          NewWorkingReplicaSet(SchemaOfTable(db, tableID),
                                               TableIDToComparableSpan(tableID),
                                               checkpointTs, node)),
                nextID))
    /\ nextID' = nextID + 1
    /\ call' = [op |-> "AddReplicatingSpan", id |-> nextID]
    /\ UNCHANGED <<fatal, opVars, beVars, ctlVars, mt, hsVars>>

Call_MarkSpanScheduling(id) ==
    /\ ~fatal
    /\ db' = Collect(MarkSchedulingWithoutLock(db, id))
    /\ call' = [op |-> "MarkSpanScheduling", id |-> id]
    /\ UNCHANGED <<nextID, fatal, opVars, beVars, ctlVars, mt, hsVars>>

\* prior: the DB before the AddAbsentReplicaSet that added id, when that was
\* the call before this one
Call_ForceRemove(id) ==
    /\ ~fatal
    /\ db' = Collect(ForceRemoveDB(db, id))
    /\ LET added == call.op = "AddAbsentReplicaSet" /\ call.id = id
       IN  call' = [op |-> "ForceRemove", id |-> id, added |-> added,
                    prior |-> IF added THEN call.before ELSE db]
    /\ UNCHANGED <<nextID, fatal, opVars, beVars, ctlVars, mt, hsVars>>

Call_UpdateSchemaID(tableID, newSchemaID) ==
    /\ ~fatal
    /\ db' = Collect(UpdateSchemaIDDB(db, tableID, newSchemaID))
    /\ call' = [op |-> "UpdateSchemaID", tableID |-> tableID, newSchemaID |-> newSchemaID]
    /\ UNCHANGED <<nextID, fatal, opVars, beVars, ctlVars, mt, hsVars>>

Call_ReplaceReplicaSet(olds, newSpans, checkpointTs) ==
    /\ ~fatal
    /\ LET r == ReplaceReplicaSetDB(db, olds, newSpans, checkpointTs, nextID)
       IN  /\ db' = Collect(r.db)
           /\ fatal' = r.fatal
           /\ nextID' = IF r.fatal THEN nextID ELSE nextID + Len(newSpans)
    /\ call' = [op |-> "ReplaceReplicaSet", olds |-> olds, newSpans |-> newSpans,
                checkpointTs |-> checkpointTs]
    /\ UNCHANGED <<opVars, beVars, ctlVars, mt, hsVars>>

Call_TryRemoveAll ==
    /\ ~fatal
    /\ db' = Collect(TryRemoveAllDB(db))
    /\ call' = [op |-> "TryRemoveAll", ret |-> TryRemoveAllRet(db),
                removed |-> db.allTasks \ db'.allTasks]
    /\ UNCHANGED <<nextID, fatal, opVars, beVars, ctlVars, mt, hsVars>>

Call_TryRemoveByTableIDs(tableIDs) ==
    /\ ~fatal
    /\ db' = Collect(TryRemoveByTableIDsDB(db, tableIDs))
    /\ call' = [op |-> "TryRemoveByTableIDs", tableIDs |-> tableIDs,
                ret |-> TryRemoveByTableIDsRet(db, tableIDs),
                removed |-> db.allTasks \ db'.allTasks]
    /\ UNCHANGED <<nextID, fatal, opVars, beVars, ctlVars, mt, hsVars>>

Call_TryRemoveBySchemaID(schemaID) ==
    /\ ~fatal
    /\ db' = Collect(TryRemoveBySchemaIDDB(db, schemaID))
    /\ call' = [op |-> "TryRemoveBySchemaID", schemaID |-> schemaID,
                ret |-> TryRemoveBySchemaIDRet(db, schemaID),
                removed |-> db.allTasks \ db'.allTasks]
    /\ UNCHANGED <<nextID, fatal, opVars, beVars, ctlVars, mt, hsVars>>

\* the olds of a split or a merge: none, one span, two distinct spans; the
\* ids are those of spans the caller once took from the DB
CallOlds ==
    {<<>>} \cup {<<a>> : a \in 1..MaxCallID}
        \cup {p \in (1..MaxCallID) \X (1..MaxCallID) : p[1] # p[2]}

NextCalls ==
    \/ /\ nextID <= MaxCallID
       /\ \E t \in TableIDs, ts \in CheckpointTss : Call_AddAbsentReplicaSet(t, ts)
    \/ /\ nextID <= MaxCallID
       /\ \E t \in TableIDs : Call_AddReplicatingSpan(t, StartTs + 1, DDLNode)
    \/ \E id \in db.absent : Call_MarkSpanScheduling(id)
    \/ \E id \in Schedulable \cup {MaxCallID + 1} : Call_ForceRemove(id)
    \/ \E t \in TableIDs, s \in SchemaIDs : Call_UpdateSchemaID(t, s)
    \/ \E olds \in CallOlds : \E news \in SplitsOf(TableOf(olds)) :
          \E ts \in {StartTs, StartTs + 2} :
            /\ nextID + Len(news) - 1 <= MaxCallID
            /\ Call_ReplaceReplicaSet(olds, news, ts)
    \/ Call_TryRemoveAll
    \/ \E ts \in {{}, {DDLTableID}, {1}, {1, 2}} : Call_TryRemoveByTableIDs(ts)
    \/ \E s \in {DDLSchemaID} \cup SchemaIDs : Call_TryRemoveBySchemaID(s)

SpecCalls == InitDB /\ [][NextCalls]_vars

\* C15: after UpdateSchemaID(t, s) every span of table t has schema id s and
\* is under schemaTasks[s] and under no other schema key, the spans of
\* GetTasksByTableIDs(t) are the same as before, and a schema key the call
\* emptied is gone
C15_UpdateSchemaID ==
    [][call'.op = "UpdateSchemaID" =>
          LET t == call'.tableID
              s == call'.newSchemaID
              moved == GetTasksByTableIDs(db, {t})
          IN  /\ \A id \in db'.allTasks :
                     db'.spans[id].tableID = t =>
                        /\ GetSchemaID(db', id) = s
                        /\ id \in GetTasksBySchemaID(db', s)
                        /\ \A k \in DOMAIN db'.schemaTasks \ {s} : id \notin db'.schemaTasks[k]
              /\ GetTasksByTableIDs(db', {t}) = moved
              /\ \A k \in DOMAIN db.schemaTasks \ {s} :
                     db.schemaTasks[k] \subseteq moved => k \notin DOMAIN db'.schemaTasks
              /\ \A k \in DOMAIN db'.schemaTasks : db'.schemaTasks[k] # {}]_vars

\* a table's two spans were moved to schema 2 and the key of schema 1, which
\* held nothing else, is gone
C15_Witness ==
    /\ call.op = "UpdateSchemaID" /\ call.newSchemaID = 2
    /\ Cardinality(GetTasksByTableIDs(db, {call.tableID})) = 2
    /\ GetTasksBySchemaID(db, 2) = GetTasksByTableIDs(db, {call.tableID})
    /\ 1 \notin DOMAIN db.schemaTasks

\* no map and no partition of the DB holds the id
Unknown(d, id) ==
    /\ id \notin d.allTasks
    /\ \A k \in DOMAIN d.tableTasks : id \notin d.tableTasks[k]
    /\ \A k \in DOMAIN d.schemaTasks : id \notin d.schemaTasks[k]
    /\ id \notin d.absent \cup d.scheduling \cup d.replicating

\* the maps and the partitions of the DB
Contents(d) ==
    <<d.allTasks, d.tableTasks, d.schemaTasks, d.absent, d.scheduling, d.replicating>>

\* C16: after ReplaceReplicaSet(olds, newSpans, ts) with every old in the DB
\* the DB knows none of the old ids and holds len(newSpans) new spans, one
\* per span of newSpans, each absent, with an id never used before, the
\* checkpoint ts min(ts, min of the olds' checkpoint ts) and the schema id
\* of olds[0]; the other spans stay
C16_ReplaceReplicaSet ==
    [][(/\ call'.op = "ReplaceReplicaSet"
        /\ Len(call'.olds) > 0
        /\ \A i \in DOMAIN call'.olds : call'.olds[i] \in db.allTasks) =>
          LET olds == call'.olds
              newSpans == call'.newSpans
              tss == {call'.checkpointTs} \cup {db.spans[olds[i]].checkpointTs : i \in DOMAIN olds}
              new == db'.allTasks \ db.allTasks
          IN  /\ ~fatal'
              /\ \A i \in DOMAIN olds : Unknown(db', olds[i])
              /\ Cardinality(new) = Len(newSpans)
              /\ new = nextID..(nextID + Len(newSpans) - 1)
              /\ new \cap DOMAIN db.spans = {}
              /\ {TableSpan(db'.spans[id].tableID, db'.spans[id].startKey, db'.spans[id].endKey) :
                     id \in new} = Range(newSpans)
              /\ \A id \in new :
                     /\ id \in db'.absent
                     /\ id \notin db'.scheduling \cup db'.replicating
                     /\ GetNodeID(db', id) = NoNode
                     /\ \A x \in tss : db'.spans[id].checkpointTs <= x
                     /\ db'.spans[id].checkpointTs \in tss
                     /\ GetSchemaID(db', id) = GetSchemaID(db, olds[1])
                     /\ id \in MapGet(db'.tableTasks, db'.spans[id].tableID)
                     /\ id \in MapGet(db'.schemaTasks, GetSchemaID(db', id))
              /\ db'.allTasks \ new = db.allTasks \ Range(olds)]_vars

\* one span was split in two at a checkpoint ts above its own: the halves are
\* absent with the old span's checkpoint ts
C16_Witness ==
    /\ call.op = "ReplaceReplicaSet" /\ ~fatal
    /\ Len(call.olds) = 1 /\ Len(call.newSpans) = 2
    /\ call.checkpointTs = StartTs + 2
    /\ \E a, b \in db.absent :
          /\ a # b
          /\ db.spans[a].endKey = db.spans[b].startKey
          /\ db.spans[a].checkpointTs = StartTs /\ db.spans[b].checkpointTs = StartTs
          /\ db.spans[a].schemaID = 2

\* C17: ReplaceReplicaSet with an old whose id is not in the DB ends fatal and
\* leaves the DB as it was: no span added, no old removed
C17_MissingOldUnchanged ==
    [][(/\ call'.op = "ReplaceReplicaSet"
        /\ \E i \in DOMAIN call'.olds : call'.olds[i] \notin db.allTasks) =>
          /\ fatal'
          /\ Contents(db') = Contents(db)
          /\ nextID' = nextID]_vars

\* C18: ReplaceReplicaSet with no old is rejected: no span is added and the
\* maps and the partitions stay as they were
C18_EmptyOldsRejected ==
    [][(call'.op = "ReplaceReplicaSet" /\ call'.olds = <<>>) =>
          /\ fatal'
          /\ Contents(db') = Contents(db)
          /\ db'.spans = db.spans
          /\ nextID' = nextID]_vars

\* a replacement of nothing by two spans was rejected on a DB holding a span
C18_Witness ==
    /\ call.op = "ReplaceReplicaSet" /\ call.olds = <<>> /\ Len(call.newSpans) = 2
    /\ fatal
    /\ db.absent # {}

\* the spans a TryRemove call is about: those of the table ids, those of the
\* schema id, every span but the DDL span
Matching(d, c) ==
    CASE c.op = "TryRemoveByTableIDs" -> {id \in d.allTasks : d.spans[id].tableID \in c.tableIDs}
      [] c.op = "TryRemoveBySchemaID" -> {id \in d.allTasks : d.spans[id].schemaID = c.schemaID}
      [] c.op = "TryRemoveAll" -> d.allTasks \ {ddlSpanID}

\* the span is in d2 what it is in d1: same fields, same maps, same partition
SameSpan(d1, d2, id) ==
    /\ id \in d2.allTasks
    /\ d2.spans[id] = d1.spans[id]
    /\ (id \in d2.absent) = (id \in d1.absent)
    /\ (id \in d2.scheduling) = (id \in d1.scheduling)
    /\ (id \in d2.replicating) = (id \in d1.replicating)
    /\ \A k \in DOMAIN d1.tableTasks \cup DOMAIN d2.tableTasks :
           (id \in MapGet(d2.tableTasks, k)) = (id \in MapGet(d1.tableTasks, k))
    /\ \A k \in DOMAIN d1.schemaTasks \cup DOMAIN d2.schemaTasks :
           (id \in MapGet(d2.schemaTasks, k)) = (id \in MapGet(d1.schemaTasks, k))

\* what every TryRemove call does: the matching spans are gone, the absent
\* ones are not returned, the others stay as they are, and without table ids
\* nothing is returned or changed
TryRemoveRemoves ==
    LET m == Matching(db, call')
    IN  /\ \A id \in m : Unknown(db', id)
        /\ call'.ret \subseteq m
        /\ call'.ret \cap db.absent = {}
        /\ \A id \in db.allTasks \ m : SameSpan(db, db', id)
        /\ (call'.op = "TryRemoveByTableIDs" /\ call'.tableIDs = {}) =>
               (call'.ret = {} /\ db' = db)

C20_AddThenForceRemove ==
    (call.op = "ForceRemove" /\ call.added) =>
        /\ Contents(db) = Contents(call.prior)
        /\ \A k \in DOMAIN db.tableTasks : db.tableTasks[k] # {}
        /\ \A k \in DOMAIN db.schemaTasks : db.schemaTasks[k] # {}

\* the span added and removed was the first of its table and of its schema,
\* next to a span of the other table
C20_Witness ==
    /\ call.op = "ForceRemove" /\ call.added
    /\ call.id \notin db.allTasks
    /\ Cardinality(DOMAIN db.tableTasks) = 2
    /\ GetTasksBySchemaID(db, 1) = {}
    /\ GetTasksBySchemaID(db, 2) # {}

(***************************************************************************)
(* The Controller's routing of heartbeats.  A status names a dispatcher,   *)
(* its component state and its checkpoint ts; the commands the Controller  *)
(* hands to the message center are recorded status by status.              *)
(***************************************************************************)
TableSpanStatus(id, componentStatus, checkpointTs) ==
    [ID |-> id, ComponentStatus |-> componentStatus, CheckpointTs |-> checkpointTs]

\* UpdateOperatorStatus(spanID, from, status) as a function of the operator
\* objects: a sent operator finishes on a working status from its target
UpdateOperatorStatusOf(o, q, id, from, status) ==
    [h \in DOMAIN o |->
        IF /\ \E i \in DOMAIN q : q[i] = h
           /\ o[h].id = id /\ o[h].dest = from /\ o[h].sent
           /\ status.ComponentStatus = "Working"
        THEN [o[h] EXCEPT !.finished = TRUE] ELSE o[h]]

\* ReplicationDB.UpdateStatus: the span object takes the reported status
UpdateStatusDB(d, id, status) ==
    [d EXCEPT !.spans[id].componentStatus = status.ComponentStatus,
              !.spans[id].checkpointTs = status.CheckpointTs]

NewRemoveDispatcherMessage(to, id) == [To |-> to, Type |-> "RemoveDispatcher", ID |-> id]

\* the orphan test without the look at the component state
isOrphan_AnyState(q, o, status) == ~HasOperator(q, o, status.ID)

\* the span is not in the DB: is the dispatcher to be removed from the node
isOrphan(q, o, status) ==
    /\ status.ComponentStatus = "Working"
    /\ ~HasOperator(q, o, status.ID)

\* the node test that lets every report through
nodeMatches_Always(d, id, from) == TRUE

\* the reporting node is the node the DB records for the span
nodeMatches(d, id, from) == GetNodeID(d, id) = from

\* one iteration of HandleStatus on s = [db, ops, sent]
handleStatusOf(s, q, from, status) ==
    LET o1 == UpdateOperatorStatusOf(s.ops, q, status.ID, from, status)
        s1 == [s EXCEPT !.ops = o1]
    IN  IF GetTaskByID(s.db, status.ID) = {}
        THEN IF isOrphan(q, o1, status)
             THEN [s1 EXCEPT !.sent = Append(@, <<NewRemoveDispatcherMessage(from, status.ID)>>)]
             ELSE [s1 EXCEPT !.sent = Append(@, <<>>)]
        ELSE IF ~nodeMatches(s.db, status.ID, from)
        THEN [s1 EXCEPT !.sent = Append(@, <<>>)]
        ELSE [s1 EXCEPT !.db = UpdateStatusDB(@, status.ID, status),
                        !.sent = Append(@, <<>>)]

RECURSIVE HandleStatusOf(_, _, _, _, _)
HandleStatusOf(s, q, from, statusList, i) ==
    IF i > Len(statusList) THEN s
    ELSE HandleStatusOf(handleStatusOf(s, q, from, statusList[i]), q, from, statusList, i + 1)

\* HandleStatus(from, statusList)
HandleStatus(from, statusList) ==
    /\ ~fatal
    /\ LET r == HandleStatusOf([db |-> db, ops |-> ops, sent |-> <<>>],
                               runningQueue, from, statusList, 1)
       IN  /\ db' = r.db
           /\ ops' = r.ops
           /\ res' = [op |-> "HandleStatus", from |-> from, statusList |-> statusList,
                      sent |-> r.sent, flip |-> ~(res.op = "HandleStatus" /\ res.flip)]
    /\ UNCHANGED <<nextID, fatal, runningQueue, mv, beVars, call, ctl, lk, mt, hsVars>>

(***************************************************************************)
(* SpecStatus: heartbeats against a DB whose spans come and go and an      *)
(* operator controller with one move in flight.                            *)
(***************************************************************************)
HeartbeatStatuses ==
    {TableSpanStatus(id, cs, StartTs + 1) : id \in 1..(MaxID + 1), cs \in {"Working", "Stopped"}}
\* a heartbeat carries one status, or two of different dispatchers
StatusLists ==
    {<<a>> : a \in HeartbeatStatuses}
        \cup {<<p[1], p[2]>> :
                 p \in {q \in HeartbeatStatuses \X HeartbeatStatuses :
                           q[1].ID # q[2].ID /\ q[1].ComponentStatus = q[2].ComponentStatus}}

NextStatus ==
    \/ /\ nextID <= MaxID
       /\ \E t \in TableIDs : AddReplicatingSpan(1, TableIDToComparableSpan(t), StartTs, DDLNode)
    \/ \E t \in TableIDs, n \in Nodes : moveTable_NewMoveOperator("c1", t, n)
    \/ moveTable_AddOperator("c1")
    \/ Execute
    \/ \E id \in Schedulable : ForceRemove(id)
    \/ \E from \in Nodes, l \in StatusLists : HandleStatus(from, l)

SpecStatus == InitDB /\ [][NextStatus]_vars

\* the partition a span is in
PartitionOf(d, id) ==
    <<id \in d.absent, id \in d.scheduling, id \in d.replicating>>

\* C21: a status of HandleStatus(from, statuses) for a dispatcher id unknown
\* to the DB sends exactly one RemoveDispatcher command to `from` when the
\* status is Working and no operator exists for the id, and nothing
\* otherwise; the call adds and removes no span, and a call whose statuses
\* are all for unknown ids leaves the DB as it was
C21_OrphanCleanup ==
    [][(res' # res /\ res'.op = "HandleStatus") =>
          LET l == res'.statusList
          IN  /\ \A i \in DOMAIN l :
                     l[i].ID \notin db.allTasks =>
                        res'.sent[i] =
                            IF /\ l[i].ComponentStatus = "Working"
                               /\ ~HasOperator(runningQueue, ops, l[i].ID)
                            THEN <<NewRemoveDispatcherMessage(res'.from, l[i].ID)>>
                            ELSE <<>>
              /\ db'.allTasks = db.allTasks
              /\ (\A i \in DOMAIN l : l[i].ID \notin db.allTasks) => db' = db]_vars

\* one heartbeat named a removed span that still has its operator and a
\* span nobody knows, both working: only the second was answered
C21_Witness ==
    /\ res.op = "HandleStatus"
    /\ Len(res.statusList) = 2
    /\ \A i \in 1..2 : /\ res.statusList[i].ComponentStatus = "Working"
                       /\ res.statusList[i].ID \notin db.allTasks
    /\ HasOperator(runningQueue, ops, res.statusList[1].ID)
    /\ res.sent = << <<>>, <<NewRemoveDispatcherMessage(res.from, res.statusList[2].ID)>> >>

\* C22: a status reported by a node other than the node the DB records for
\* the span changes nothing of the span (component state, checkpoint ts,
\* node id, partition) and sends no command
C22_NodeMismatchIgnored ==
    [][(res' # res /\ res'.op = "HandleStatus") =>
          LET l == res'.statusList
          IN  \A i \in DOMAIN l :
                 (l[i].ID \in db.allTasks /\ GetNodeID(db, l[i].ID) # res'.from) =>
                    /\ db'.spans[l[i].ID] = db.spans[l[i].ID]
                    /\ PartitionOf(db', l[i].ID) = PartitionOf(db, l[i].ID)
                    /\ res'.sent[i] = <<>>]_vars

\* a replicating span was reported stopped by the other node, and another
\* span's report from its own node was applied in the same call
C22_Witness ==
    /\ res.op = "HandleStatus"
    /\ Len(res.statusList) = 2
    /\ LET a == res.statusList[1]
           b == res.statusList[2]
       IN  /\ a.ID \in db.replicating /\ b.ID \in db.replicating
           /\ a.ComponentStatus = "Stopped" /\ b.ComponentStatus = "Stopped"
           /\ GetNodeID(db, a.ID) # res.from
           /\ GetNodeID(db, b.ID) = res.from
           /\ db.spans[a.ID].componentStatus = "Working"
           /\ db.spans[a.ID].checkpointTs = StartTs
           /\ db.spans[b.ID].componentStatus = "Stopped"

(***************************************************************************)
(* AddNewTable and FinishBootstrap as functions of the DB.  The splitter,  *)
(* the hole finder and the ordered span map are collaborators outside the  *)
(* Controller: the splitter returns a partition of the whole-table span,    *)
(* the hole finder the maximal uncovered ranges in key order, the span map *)
(* keeps one entry per TableSpan.                                          *)
(***************************************************************************)
Table(schemaID, tableID) == [SchemaID |-> schemaID, TableID |-> tableID]

\* addNewSpans: a new absent replica set with a new dispatcher id per span
addNewSpans(d, first, schemaID, tableSpans, startTs) ==
    replaceNews(d, tableSpans, 1, first, schemaID, startTs)

\* AddNewTable without the test for an existing table
AddNewTableDB_NoTest(d, first, table, startTs, enableTableAcrossNodes, split) ==
    [db |-> addNewSpans(d, first, table.SchemaID,
                        <<TableIDToComparableSpan(table.TableID)>>, startTs),
     n |-> 1]

\* AddNewTable: the DB afterwards and the number of dispatcher ids taken;
\* split is what SplitSpans returns for the table
AddNewTableDB(d, first, table, startTs, enableTableAcrossNodes, split) ==
    IF IsTableExists(d, table.TableID) THEN [db |-> d, n |-> 0]
    ELSE LET tableSpans == IF enableTableAcrossNodes THEN split
                           ELSE <<TableIDToComparableSpan(table.TableID)>>
         IN  [db |-> addNewSpans(d, first, table.SchemaID, tableSpans, startTs),
              n |-> Len(tableSpans)]

\* the record of one reported span in a MaintainerBootstrapResponse
SpanInfo(id, schemaID, span, componentStatus, checkpointTs) ==
    [ID |-> id, SchemaID |-> schemaID, Span |-> span,
     ComponentStatus |-> componentStatus, CheckpointTs |-> checkpointTs]
MaintainerBootstrapResponse(checkpointTs, spans) ==
    [CheckpointTs |-> checkpointTs, Spans |-> spans]

\* the loop over the responses that takes whatever checkpoint ts differs
RECURSIVE realStartTs_Last(_, _, _, _)
realStartTs_Last(s, cachedResp, order, i) ==
    IF i > Len(order) THEN s
    ELSE LET resp == cachedResp[order[i]]
         IN  realStartTs_Last(
                IF resp.CheckpointTs # s.startTs
                THEN [startTs |-> resp.CheckpointTs,
                      db |-> UpdateStatusDB(s.db, GetDDLDispatcher,
                                TableSpanStatus(GetDDLDispatcher,
                                    s.db.spans[GetDDLDispatcher].componentStatus,
                                    resp.CheckpointTs))]
                ELSE s,
                cachedResp, order, i + 1)

\* 1. the real start ts: the loop over the responses, in the order the map
\* hands them out; s = [startTs, db]
RECURSIVE realStartTs(_, _, _, _)
realStartTs(s, cachedResp, order, i) ==
    IF i > Len(order) THEN s
    ELSE LET resp == cachedResp[order[i]]
         IN  realStartTs(
                IF resp.CheckpointTs > s.startTs
                THEN [startTs |-> resp.CheckpointTs,
                      db |-> UpdateStatusDB(s.db, GetDDLDispatcher,
                                TableSpanStatus(GetDDLDispatcher,
                                    s.db.spans[GetDDLDispatcher].componentStatus,
                                    resp.CheckpointTs))]
                ELSE s,
                cachedResp, order, i + 1)

\* the replica set of a reported span as a new, unassigned one
workingReplicaSet_Unassigned(server, info) ==
    [id |-> info.ID, stm |-> NewReplicaSet(info.SchemaID, info.Span, info.CheckpointTs)]

\* the replica set of a reported span: working on the server that reported it
workingReplicaSet(server, info) ==
    [id |-> info.ID,
     stm |-> [NewWorkingReplicaSet(info.SchemaID, info.Span, info.CheckpointTs, server)
                 EXCEPT !.componentStatus = info.ComponentStatus]]

\* the spans of one response into the working map (ReplaceOrInsert by span)
RECURSIVE workingSpans(_, _, _, _)
workingSpans(wm, server, spans, i) ==
    IF i > Len(spans) THEN wm
    ELSE workingSpans(
            IF spans[i].ID = ddlSpanID THEN wm
            ELSE MapPut(wm, spans[i].Span, workingReplicaSet(server, spans[i])),
            server, spans, i + 1)

\* the working map of all responses: TableSpan -> replica set
RECURSIVE workingMapOf(_, _, _, _)
workingMapOf(wm, cachedResp, order, i) ==
    IF i > Len(order) THEN wm
    ELSE workingMapOf(workingSpans(wm, order[i], cachedResp[order[i]].Spans, 1),
                      cachedResp, order, i + 1)

\* addWorkingSpans: AddReplicatingSpan for every entry of a table's span map
RECURSIVE addWorkingSpans(_, _, _)
addWorkingSpans(d, wm, tableMap) ==
    IF tableMap = {} THEN d
    ELSE LET span == CHOOSE x \in tableMap :
                        \A y \in tableMap : <<x.startKey, x.endKey>> = <<y.startKey, y.endKey>>
                                            \/ x.startKey < y.startKey
                                            \/ (x.startKey = y.startKey /\ x.endKey < y.endKey)
         IN  addWorkingSpans(
                AddReplicatingSpanDB(NewObject(d, wm[span].id, wm[span].stm), wm[span].id),
                wm, tableMap \ {span})

\* the unit key ranges [k, k+1) a set of spans covers
Covered(tableMap) == UNION {x.startKey..(x.endKey - 1) : x \in tableMap}

\* split.FindHoles: the maximal ranges of the table span no span of the map
\* covers, in key order
RECURSIVE holesFrom(_, _, _)
holesFrom(covered, tableID, a) ==
    IF a >= KeyMax THEN <<>>
    ELSE IF a \in covered THEN holesFrom(covered, tableID, a + 1)
    ELSE LET b == CHOOSE x \in (a + 1)..KeyMax :
                     /\ x = KeyMax \/ x \in covered
                     /\ \A y \in a..(x - 1) : y \notin covered
         IN  <<TableSpan(tableID, a, b)>> \o holesFrom(covered, tableID, b)
FindHoles(tableMap, tableID) == holesFrom(Covered(tableMap), tableID, 0)

\* an object's name where the backend is not MySQL compatible
NameOf(kind, id) == <<kind, id>>
getSchemaInfo(table, isMysqlCompatibleBackend) ==
    IF isMysqlCompatibleBackend
    THEN [SchemaID |-> table.SchemaID, SchemaName |-> <<>>, Tables |-> <<>>]
    ELSE [SchemaID |-> 0, SchemaName |-> NameOf("schema", table.SchemaID), Tables |-> <<>>]
getTableInfo(table, isMysqlCompatibleBackend) ==
    IF isMysqlCompatibleBackend
    THEN [TableID |-> table.TableID, TableName |-> <<>>]
    ELSE [TableID |-> 0, TableName |-> NameOf("table", table.TableID)]

\* the start ts of the spans FinishBootstrap adds, taken from the responses
absentStartTs_Bootstrap(c, startTs) == startTs

\* the start ts of the spans FinishBootstrap adds as absent
absentStartTs(c, startTs) == c.startCheckpointTs

\* the working-map entries left after the loop, installed like the others
leftover_Install(d, wm) == addWorkingSpans(d, wm, DOMAIN wm)

\* the working-map entries of tables that were not loaded: a warning each
leftover(d, wm) == d

\* one iteration of the loop over the loaded tables;
\* s = [db, next, wm, schemaInfos], split is the splitter's cut of a table
installTable(s, c, table, startTs, split, isMysqlCompatibleBackend) ==
    LET tableMap == {x \in DOMAIN s.wm : x.tableID = table.TableID}
        info0 == IF table.SchemaID \in DOMAIN s.schemaInfos
                 THEN s.schemaInfos[table.SchemaID]
                 ELSE getSchemaInfo(table, isMysqlCompatibleBackend)
        infos == MapPut(s.schemaInfos, table.SchemaID,
                        [info0 EXCEPT !.Tables =
                            Append(@, getTableInfo(table, isMysqlCompatibleBackend))])
    IN  IF tableMap = {}
        THEN LET r == AddNewTableDB(s.db, s.next, table, absentStartTs(c, startTs),
                                    c.enableTableAcrossNodes, split[table.TableID])
             IN  [db |-> r.db, next |-> s.next + r.n, wm |-> s.wm, schemaInfos |-> infos]
        ELSE LET d1 == addWorkingSpans(s.db, s.wm, tableMap)
                 holes == IF c.enableTableAcrossNodes
                          THEN FindHoles(tableMap, table.TableID) ELSE <<>>
             IN  [db |-> addNewSpans(d1, s.next, table.SchemaID, holes,
                                     absentStartTs(c, startTs)),
                  next |-> s.next + Len(holes),
                  wm |-> [x \in DOMAIN s.wm \ tableMap |-> s.wm[x]],
                  schemaInfos |-> infos]

RECURSIVE installTables(_, _, _, _, _, _, _)
installTables(s, c, tables, startTs, split, isMysqlCompatibleBackend, i) ==
    IF i > Len(tables) THEN s
    ELSE installTables(
            installTable(s, c, tables[i], startTs, split, isMysqlCompatibleBackend),
            c, tables, startTs, split, isMysqlCompatibleBackend, i + 1)

\* the Controller after the scheduler and the operator controller started,
\* bootstrapped left as it was
started_NotMarked(c) ==
    [c EXCEPT !.taskHandlers = @ \o <<"scheduler", "operatorController">>]

\* the scheduler and the operator controller are started, bootstrapped is set
started(c) ==
    [c EXCEPT !.taskHandlers = @ \o <<"scheduler", "operatorController">>,
              !.bootstrapped = TRUE]

NoReturn == [barrier |-> <<>>, request |-> <<>>, err |-> "none"]

\* the return on a failed load that starts the tasks all the same
loadFailed_Started(c, d, first, startTs) ==
    [fatal |-> FALSE, db |-> d, next |-> first, ctl |-> started(c), loadedAt |-> <<startTs>>,
     ret |-> [barrier |-> <<>>, request |-> <<>>, err |-> "load"]]

\* the schema store (or the filter) failed: return nil, nil, err
loadFailed(c, d, first, startTs) ==
    [fatal |-> FALSE, db |-> d, next |-> first, ctl |-> c, loadedAt |-> <<startTs>>,
     ret |-> [barrier |-> <<>>, request |-> <<>>, err |-> "load"]]

\* FinishBootstrap: store[ts] is what the schema store answers at ts, order
\* the order in which the map of responses is iterated; loadedAt lists the
\* timestamps the schema store was asked at
FinishBootstrapOf(c, d, first, cachedResp, order, store, split, isMysqlCompatibleBackend) ==
    IF c.bootstrapped
    THEN [fatal |-> TRUE, db |-> d, next |-> first, ctl |-> c, loadedAt |-> <<>>,
          ret |-> NoReturn]
    ELSE LET s1 == realStartTs([startTs |-> 0, db |-> d], cachedResp, order, 1)
         IN  IF s1.startTs = 0
             THEN [fatal |-> TRUE, db |-> s1.db, next |-> first, ctl |-> c,
                   loadedAt |-> <<>>, ret |-> NoReturn]
             ELSE IF store[s1.startTs].err
             THEN loadFailed(c, s1.db, first, s1.startTs)
             ELSE LET wm == workingMapOf(EmptyMap, cachedResp, order, 1)
                      s2 == installTables(
                                [db |-> s1.db, next |-> first, wm |-> wm,
                                 schemaInfos |-> EmptyMap],
                                c, store[s1.startTs].tables, s1.startTs, split,
                                isMysqlCompatibleBackend, 1)
                  IN  [fatal |-> FALSE, db |-> leftover(s2.db, s2.wm), next |-> s2.next,
                       ctl |-> started(c), loadedAt |-> <<s1.startTs>>,
                       ret |-> [barrier |-> <<c.enableTableAcrossNodes>>,
                                request |-> <<[TableTriggerEventDispatcherId |-> ddlSpanID,
                                               Schemas |-> {s2.schemaInfos[k] :
                                                              k \in DOMAIN s2.schemaInfos}]>>,
                                err |-> "nil"]]

\* FinishBootstrap(cachedResp, isMysqlCompatibleBackend)
FinishBootstrap(cachedResp, order, store, split, isMysqlCompatibleBackend) ==
    /\ ~fatal
    /\ LET r == FinishBootstrapOf(ctl, db, nextID, cachedResp, order, store, split,
                                  isMysqlCompatibleBackend)
       IN  /\ db' = Collect(r.db)
           /\ nextID' = r.next
           /\ fatal' = r.fatal
           /\ ctl' = r.ctl
           /\ res' = [op |-> "FinishBootstrap", cachedResp |-> cachedResp, store |-> store,
                      isMysqlCompatibleBackend |-> isMysqlCompatibleBackend,
                      ret |-> r.ret, loadedAt |-> r.loadedAt,
                      calls |-> IF res.op = "FinishBootstrap" THEN res.calls + 1 ELSE 1]
    /\ UNCHANGED <<opVars, beVars, call, lk, mt, hsVars>>

(***************************************************************************)
(* SpecBoot: one Controller, with or without table splitting, and the      *)
(* calls of FinishBootstrap on it.  Node n1 hosts the table trigger        *)
(* dispatcher and dispatcher 10, node n2 dispatcher 11; a node reports its *)
(* dispatchers or not.  The schema store holds table 1 (schema 1) and,     *)
(* at one of the timestamps, table 2 (schema 2), or fails.  A retry hands  *)
(* over the same cached responses.                                         *)
(***************************************************************************)
MaxBoot == 3

BootTs == {0, StartTs, StartTs + 1}
ReportedSpans(id, ts) ==
    {SpanInfo(id, 2, sp, "Working", ts) : sp \in UNION {SubSpans(t) : t \in TableIDs}}
DDLInfo ==
    SpanInfo(ddlSpanID, DDLSchemaID, TableIDToComparableSpan(DDLTableID), "Working", StartTs)
SpanLists(n) ==
    IF n = DDLNode
    THEN {<<>>, <<DDLInfo>>}
            \cup {<<x>> : x \in ReportedSpans(10, StartTs + 1)}
            \cup {<<DDLInfo, x>> : x \in ReportedSpans(10, StartTs + 1)}
    ELSE {<<>>} \cup {<<x>> : x \in {y \in ReportedSpans(11, StartTs) :
                                        y.Span.tableID = 1
                                        \/ y.Span = TableIDToComparableSpan(y.Span.tableID)}}
ResponsesOf(n) ==
    {MaintainerBootstrapResponse(ts, l) : ts \in BootTs, l \in SpanLists(n)}
CachedResps ==
    UNION {{f \in [S -> UNION {ResponsesOf(n) : n \in Nodes}] :
               \A n \in S : f[n] \in ResponsesOf(n)} : S \in SUBSET Nodes}
Orders(S) ==
    {o \in [1..Cardinality(S) -> S] : \A i, j \in 1..Cardinality(S) : o[i] = o[j] => i = j}
Loaded(tables) == [err |-> FALSE, tables |-> tables]
LoadError == [err |-> TRUE, tables |-> <<>>]
Stores ==
    {[ts \in {StartTs, StartTs + 1} |-> LoadError],
     [ts \in {StartTs, StartTs + 1} |->
         IF ts = StartTs THEN Loaded(<<Table(1, 1)>>)
         ELSE Loaded(<<Table(1, 1), Table(2, 2)>>)],
     [ts \in {StartTs, StartTs + 1} |->
         IF ts = StartTs THEN Loaded(<<Table(1, 1), Table(2, 2)>>)
         ELSE Loaded(<<Table(1, 1)>>)]}
Splitters(enableTableAcrossNodes) ==
    {[t \in TableIDs |-> <<TableIDToComparableSpan(t)>>]}
        \cup IF enableTableAcrossNodes
             THEN {[t \in TableIDs |-> <<TableSpan(t, 0, m), TableSpan(t, m, KeyMax)>>] :
                      m \in 1..(KeyMax - 1)}
             ELSE {}

InitBoot ==
    /\ db = NewReplicaSetDB
    /\ nextID = 1
    /\ fatal = FALSE
    /\ InitOp
    /\ InitNoEvent
    /\ ctl \in {NewController(e, StartTs) : e \in BOOLEAN}
    /\ res = [op |-> "none"]
    /\ lk = [pc |-> "idle"]
    /\ mt = newMatcher
    /\ hs = [pc |-> "idle"]
    /\ gc = [gen |-> 0, updated |-> {}]

NextBoot ==
    \/ /\ res.op = "none"
       /\ \E cachedResp \in CachedResps, store \in Stores, my \in BOOLEAN :
             \E order \in Orders(DOMAIN cachedResp) :
                \E split \in Splitters(ctl.enableTableAcrossNodes) :
                   FinishBootstrap(cachedResp, order, store, split, my)
    \/ /\ res.op = "FinishBootstrap"
       /\ res.calls < MaxBoot
       /\ \E store \in Stores, order \in Orders(DOMAIN res.cachedResp) :
             \E split \in Splitters(ctl.enableTableAcrossNodes) :
                FinishBootstrap(res.cachedResp, order, store, split,
                                res.isMysqlCompatibleBackend)

SpecBoot == InitBoot /\ [][NextBoot]_vars

\* a step of FinishBootstrap
IsFinishBootstrap == res' # res /\ res'.op = "FinishBootstrap"

\* the non-DDL dispatchers of the responses, with the node that reported each
Reports(cachedResp) ==
    {r \in (DOMAIN cachedResp) \X (UNION {Range(cachedResp[n].Spans) : n \in DOMAIN cachedResp}) :
        r[2] \in Range(cachedResp[r[1]].Spans) /\ r[2].ID # ddlSpanID}
\* the largest checkpoint ts of the responses, 0 without responses
MaxCheckpointTs(cachedResp) ==
    LET tss == {cachedResp[n].CheckpointTs : n \in DOMAIN cachedResp} \cup {0}
    IN  CHOOSE m \in tss : \A x \in tss : x <= m
\* the table ids the schema store answers with at ts
LoadedTables(store, ts) == {store[ts].tables[i].TableID : i \in DOMAIN store[ts].tables}
SpanOf(d, id) == TableSpan(d.spans[id].tableID, d.spans[id].startKey, d.spans[id].endKey)

\* C23: FinishBootstrap executes exactly once: a call on a bootstrapped
\* Controller ends in the fatal state, changes neither the DB nor the
\* Controller and registers no task; a call marks the Controller
\* bootstrapped exactly when it returns without an error, and a call that
\* returned an error leaves it not bootstrapped
C23_BootstrapOnce ==
    [][IsFinishBootstrap =>
          /\ ctl.bootstrapped =>
                /\ fatal'
                /\ db' = db /\ nextID' = nextID /\ ctl' = ctl
                /\ res'.ret = NoReturn
          /\ ~ctl.bootstrapped => (ctl'.bootstrapped <=> res'.ret.err = "nil")
          /\ res'.ret.err = "load" => ~ctl'.bootstrapped
          /\ Len(ctl'.taskHandlers) = IF ctl'.bootstrapped THEN 2 ELSE 0]_vars

\* a failed load, a successful retry, and a further call that ended the process
C23_Witness ==
    /\ res.op = "FinishBootstrap"
    /\ res.calls = 3
    /\ fatal
    /\ ctl.bootstrapped
    /\ Cardinality(db.allTasks) > 1

\* C24: the bootstrap start ts is the maximum checkpoint ts of the
\* responses; when it is 0 the call ends in the fatal state and nothing was
\* loaded; otherwise the DDL dispatcher's checkpoint ts is the start ts and
\* the schema store was asked once, at the start ts
C24_StartTsIsMax ==
    [][(IsFinishBootstrap /\ ~ctl.bootstrapped) =>
          LET startTs == MaxCheckpointTs(res'.cachedResp)
          IN  IF startTs = 0
              THEN fatal' /\ db' = db /\ res'.loadedAt = <<>>
              ELSE /\ ~fatal'
                   /\ db'.spans[ddlSpanID].checkpointTs = startTs
                   /\ res'.loadedAt = <<startTs>>]_vars

\* two responses, the larger checkpoint ts from either node: the DDL
\* dispatcher moved to it and the tables were loaded there
C24_Witness ==
    /\ res.op = "FinishBootstrap"
    /\ res.calls = 1
    /\ DOMAIN res.cachedResp = Nodes
    /\ res.cachedResp["n1"].CheckpointTs = StartTs + 1
    /\ res.cachedResp["n2"].CheckpointTs = StartTs
    /\ db.spans[ddlSpanID].checkpointTs = StartTs + 1
    /\ res.loadedAt = <<StartTs + 1>>
    /\ res.ret.err = "nil"

\* C25: after a successful FinishBootstrap the table ids with a span in the
\* DB are the tables loaded at the start ts and the DDL sentinel: a reported
\* dispatcher of a table that was not loaded is not installed (and the call
\* succeeds), a loaded table nobody reported has absent spans only
C25_TablesAreLoadedTables ==
    [][(IsFinishBootstrap /\ res'.ret.err = "nil") =>
          LET loaded == LoadedTables(res'.store, MaxCheckpointTs(res'.cachedResp))
              reports == Reports(res'.cachedResp)
          IN  /\ {db'.spans[id].tableID : id \in db'.allTasks} = loaded \cup {DDLTableID}
              /\ {t \in AnyTableIDs : IsTableExists(db', t)} = loaded \cup {DDLTableID}
              /\ ~fatal'
              /\ \A r \in reports :
                    r[2].Span.tableID \notin loaded => r[2].ID \notin db'.allTasks
              /\ \A t \in loaded :
                    (\A r \in reports : r[2].Span.tableID # t) =>
                       /\ GetTasksByTableIDs(db', {t}) # {}
                       /\ GetTasksByTableIDs(db', {t}) \subseteq db'.absent]_vars

\* node n1 reported a dispatcher of table 2, which the schema store no
\* longer has, and nobody reported table 1, which it has
C25_Witness ==
    /\ res.op = "FinishBootstrap"
    /\ res.ret.err = "nil"
    /\ ~fatal
    /\ \E r \in Reports(res.cachedResp) : r[2].Span.tableID = 2
    /\ \A r \in Reports(res.cachedResp) : r[2].Span.tableID = 2
    /\ LoadedTables(res.store, MaxCheckpointTs(res.cachedResp)) = {1}
    /\ GetTasksByTableIDs(db, {1}) # {}
    /\ GetTasksByTableIDs(db, {2}) = {}

\* C26: after a successful FinishBootstrap every TableSpan reported for a
\* loaded table by a dispatcher other than the DDL dispatcher has exactly
\* one span in the DB; that span is replicating and has the dispatcher id,
\* the node, the checkpoint ts and the schema id of one of the reports of
\* that TableSpan; nothing else is replicating, the DDL dispatcher is not
C26_ReportedSpansInstalled ==
    [][(IsFinishBootstrap /\ res'.ret.err = "nil") =>
          LET loaded == LoadedTables(res'.store, MaxCheckpointTs(res'.cachedResp))
              reports == {r \in Reports(res'.cachedResp) : r[2].Span.tableID \in loaded}
          IN  /\ \A r \in reports :
                    LET same == {id \in db'.allTasks : SpanOf(db', id) = r[2].Span}
                    IN  /\ Cardinality(same) = 1
                        /\ same \subseteq db'.replicating
                        /\ \E q \in reports :
                              /\ q[2].Span = r[2].Span
                              /\ same = {q[2].ID}
                              /\ GetNodeID(db', q[2].ID) = q[1]
                              /\ db'.spans[q[2].ID].checkpointTs = q[2].CheckpointTs
                              /\ GetSchemaID(db', q[2].ID) = q[2].SchemaID
                              /\ q[2].ID \in GetTasksBySchemaID(db', q[2].SchemaID)
                              /\ q[2].ID \in GetTasksByTableIDs(db', {q[2].Span.tableID})
              /\ db'.replicating \subseteq {r[2].ID : r \in reports}
              /\ db'.scheduling = {}
              /\ ddlSpanID \notin db'.replicating]_vars

\* both nodes reported the same TableSpan of a loaded table, node n1 the
\* DDL dispatcher as well: one of the two dispatchers is installed
C26_Witness ==
    /\ res.op = "FinishBootstrap"
    /\ res.ret.err = "nil"
    /\ \E r \in Reports(res.cachedResp), q \in Reports(res.cachedResp) :
          /\ r[1] = "n1" /\ q[1] = "n2"
          /\ r[2].Span = q[2].Span
          /\ Cardinality(db.replicating) = 1
          /\ db.replicating \subseteq {r[2].ID, q[2].ID}
    /\ DDLInfo \in Range(res.cachedResp["n1"].Spans)

\* C27: the spans FinishBootstrap adds as absent, whole tables and holes,
\* have the Controller's startCheckpointTs as their checkpoint ts
C27_AbsentFromStartCheckpointTs ==
    [][(IsFinishBootstrap /\ res'.ret.err = "nil") =>
          \A id \in db'.absent :
             db'.spans[id].checkpointTs = ctl.startCheckpointTs]_vars

\* the start ts of the responses is later than the Controller's checkpoint;
\* a table nobody reported was added whole and the hole of a partly covered
\* table was added
C27_Witness ==
    /\ res.op = "FinishBootstrap"
    /\ res.ret.err = "nil"
    /\ MaxCheckpointTs(res.cachedResp) = StartTs + 1
    /\ ctl.startCheckpointTs = StartTs
    /\ ctl.enableTableAcrossNodes
    /\ \E a \in db.absent, b \in db.absent :
          /\ SpanOf(db, a) = TableIDToComparableSpan(db.spans[a].tableID)
          /\ SpanOf(db, b) # TableIDToComparableSpan(db.spans[b].tableID)
          /\ GetTasksByTableIDs(db, {db.spans[b].tableID}) \cap db.replicating # {}

\* C28: when the load fails FinishBootstrap returns the error without a
\* barrier and without a request, adds no span, registers no task and
\* leaves the Controller not bootstrapped and the process running
C28_LoadFailure ==
    [][(IsFinishBootstrap /\ ~ctl.bootstrapped
          /\ MaxCheckpointTs(res'.cachedResp) > 0
          /\ res'.store[MaxCheckpointTs(res'.cachedResp)].err) =>
          /\ res'.ret = [barrier |-> <<>>, request |-> <<>>, err |-> "load"]
          /\ db'.allTasks = db.allTasks
          /\ db'.tableTasks = db.tableTasks /\ db'.schemaTasks = db.schemaTasks
          /\ Partitions' = Partitions
          /\ nextID' = nextID
          /\ ctl' = ctl /\ ~ctl'.bootstrapped /\ ctl'.taskHandlers = <<>>
          /\ ~fatal']_vars

\* the load failed although both nodes reported dispatchers; the DB holds
\* the DDL span only and the call can be repeated
C28_Witness ==
    /\ res.op = "FinishBootstrap"
    /\ res.ret.err = "load"
    /\ res.calls < MaxBoot
    /\ \E r \in Reports(res.cachedResp), q \in Reports(res.cachedResp) : r[1] # q[1]
    /\ db.allTasks = {ddlSpanID}
    /\ ~ctl.bootstrapped /\ ~fatal

(***************************************************************************)
(* SpecTable: AddNewTable on a Controller with or without table splitting, *)
(* against a DB in which spans of tables are installed and removed.        *)
(***************************************************************************)
\* AddNewTable(table, startTs)
AddNewTable(table, startTs, split) ==
    /\ ~fatal
    /\ LET r == AddNewTableDB(db, nextID, table, startTs, ctl.enableTableAcrossNodes, split)
       IN  /\ db' = Collect(r.db)
           /\ nextID' = nextID + r.n
    /\ res' = [op |-> "AddNewTable", table |-> table, startTs |-> startTs,
               flip |-> ~(res.op = "AddNewTable" /\ res.flip)]
    /\ UNCHANGED <<fatal, opVars, beVars, call, ctl, lk, mt, hsVars>>

NewTables == {Table(s, t) : s \in SchemaIDs, t \in AnyTableIDs}

NextTable ==
    \/ \E table \in NewTables, ts \in CheckpointTss :
          \E split \in SplitsOf(table.TableID) :
             /\ nextID + Len(split) - 1 <= MaxCallID
             /\ AddNewTable(table, ts, split)
    \/ /\ nextID <= MaxCallID
       /\ \E t \in TableIDs :
             AddReplicatingSpan(1, TableSpan(t, 0, 1), StartTs, DDLNode)
    \/ \E id \in Schedulable : ForceRemove(id)

SpecTable == InitBoot /\ [][NextTable]_vars

\* C29: without table splitting AddNewTable(table, startTs) adds one span
\* when the table has no span in the DB: the span is absent, unassigned,
\* covers the whole key range of the table, has the table's schema id and
\* the checkpoint ts startTs and is in both indices, the task size grows by
\* one and every other span stays as it was; when the table has a span the
\* DB stays as it was
C29_AddNewTable ==
    [][(res' # res /\ res'.op = "AddNewTable" /\ ~ctl.enableTableAcrossNodes) =>
          LET table == res'.table
          IN  IF GetTasksByTableIDs(db, {table.TableID}) = {}
              THEN /\ TaskSize(db') = TaskSize(db) + 1
                   /\ db.allTasks \subseteq db'.allTasks
                   /\ \A id \in db'.allTasks \ db.allTasks :
                         /\ id \in db'.absent
                         /\ id \notin db'.scheduling \cup db'.replicating
                         /\ GetNodeID(db', id) = NoNode
                         /\ SpanOf(db', id) = TableIDToComparableSpan(table.TableID)
                         /\ GetSchemaID(db', id) = table.SchemaID
                         /\ db'.spans[id].checkpointTs = res'.startTs
                         /\ id \in GetTasksBySchemaID(db', table.SchemaID)
                         /\ id \in GetTasksByTableIDs(db', {table.TableID})
                   /\ \A id \in db.allTasks :
                         /\ db'.spans[id] = db.spans[id]
                         /\ PartitionOf(db', id) = PartitionOf(db, id)
              ELSE db' = db /\ nextID' = nextID]_vars

\* the DB held the DDL span only: after AddNewTable it holds two spans, the
\* new one absent and alone under its schema
C29_Witness ==
    /\ res.op = "AddNewTable"
    /\ ~ctl.enableTableAcrossNodes
    /\ TaskSize(db) = 2
    /\ \E id \in db.absent :
          /\ GetTasksBySchemaID(db, res.table.SchemaID) = {id}
          /\ db.spans[id].checkpointTs = res.startTs
          /\ res.startTs = StartTs + 1
          /\ res.table = Table(2, 1)

(***************************************************************************)
(* The DB's read-write lock.  ReplaceReplicaSet and UpdateSchemaID take    *)
(* the lock, change the maps one operation at a time and release the lock  *)
(* on return (or while a panic unwinds); a query takes the read lock for   *)
(* its whole body.  lk holds the writer inside the lock: its arguments,    *)
(* its position and the DB it found.                                       *)
(***************************************************************************)
\* a read lock that is granted while a writer holds the lock
RLock_Granted(l) == TRUE

\* db.lock.RLock() returns: no writer holds the lock
RLock(l) == l.pc = "idle"

\* db.lock.Lock() returns: nobody holds the lock
Lock(l) == l.pc = "idle"

\* ReplaceReplicaSet: Lock
ReplaceReplicaSet_Lock(olds, newSpans, checkpointTs) ==
    /\ ~fatal
    /\ Lock(lk)
    /\ lk' = [pc |-> "olds", op |-> "ReplaceReplicaSet", olds |-> olds,
              newSpans |-> newSpans, checkpointTs |-> checkpointTs, ts |-> checkpointTs,
              i |-> 1, first |-> nextID, before |-> db]
    /\ UNCHANGED <<dbVars, opVars, beVars, call, ctl, res, mt, hsVars>>

\* ReplaceReplicaSet: one iteration of the loop over the olds, or the read
\* of oldReplications[0] behind it
ReplaceReplicaSet_Old ==
    /\ ~fatal
    /\ lk.pc = "olds"
    /\ IF lk.i > Len(lk.olds)
       THEN IF Len(lk.olds) = 0
            THEN fatal' = TRUE /\ lk' = [pc |-> "idle"] /\ db' = Collect(db)
            ELSE fatal' = FALSE /\ lk' = [lk EXCEPT !.pc = "news", !.i = 1] /\ db' = db
       ELSE IF lk.olds[lk.i] \notin db.allTasks
       THEN fatal' = TRUE /\ lk' = [pc |-> "idle"] /\ db' = Collect(db)
       ELSE /\ fatal' = FALSE
            /\ db' = removeSpanUnLock(db, lk.olds[lk.i])
            /\ lk' = [lk EXCEPT !.i = @ + 1,
                                !.ts = Min(@, db.spans[lk.olds[lk.i]].checkpointTs)]
    /\ UNCHANGED <<nextID, opVars, beVars, call, ctl, res, mt, hsVars>>

\* ReplaceReplicaSet: one new replica set into the maps, or Unlock
ReplaceReplicaSet_New ==
    /\ ~fatal
    /\ lk.pc = "news"
    /\ IF lk.i > Len(lk.newSpans)
       THEN /\ db' = Collect(db)
            /\ nextID' = nextID + Len(lk.newSpans)
            /\ lk' = [pc |-> "idle"]
       ELSE /\ db' = addAbsentReplicaSetUnLock(
                        NewObject(db, lk.first + lk.i - 1,
                                  NewReplicaSet(GetSchemaID(lk.before, lk.olds[1]),
                                                lk.newSpans[lk.i], lk.ts)),
                        lk.first + lk.i - 1)
            /\ nextID' = nextID
            /\ lk' = [lk EXCEPT !.i = @ + 1]
    /\ UNCHANGED <<fatal, opVars, beVars, call, ctl, res, mt, hsVars>>

\* UpdateSchemaID: Lock
UpdateSchemaID_Lock(tableID, newSchemaID) ==
    /\ ~fatal
    /\ Lock(lk)
    /\ lk' = [pc |-> "schema", op |-> "UpdateSchemaID", tableID |-> tableID,
              newSchemaID |-> newSchemaID, todo |-> MapGet(db.tableTasks, tableID),
              cur |-> {}, before |-> db]
    /\ UNCHANGED <<dbVars, opVars, beVars, call, ctl, res, mt, hsVars>>

\* the first half of an iteration of UpdateSchemaID: the span has the new
\* schema id and is out of the map of the old one
leaveSchema(d, id, newSchemaID) ==
    LET oldSchemaID == GetSchemaID(d, id)
        d1 == SetSchemaID(d, id, newSchemaID)
    IN  IF oldSchemaID \in DOMAIN d1.schemaTasks
        THEN [d1 EXCEPT !.schemaTasks = MapDelInner(@, oldSchemaID, id)]
        ELSE d1
\* the second half: the span is in the map of the new schema id
enterSchema(d, id, newSchemaID) ==
    [d EXCEPT !.schemaTasks = MapAddInner(@, newSchemaID, id)]

\* UpdateSchemaID: half an iteration of the loop over the table's spans, in
\* the order the map hands them out, or Unlock
UpdateSchemaID_Step ==
    /\ ~fatal
    /\ lk.pc = "schema"
    /\ IF lk.cur # {}
       THEN /\ db' = enterSchema(db, CHOOSE id \in lk.cur : TRUE, lk.newSchemaID)
            /\ lk' = [lk EXCEPT !.cur = {}, !.todo = @ \ lk.cur]
       ELSE IF lk.todo = {}
       THEN db' = Collect(db) /\ lk' = [pc |-> "idle"]
       ELSE \E id \in lk.todo :
               /\ db' = leaveSchema(db, id, lk.newSchemaID)
               /\ lk' = [lk EXCEPT !.cur = {id}]
    /\ UNCHANGED <<nextID, fatal, opVars, beVars, call, ctl, res, mt, hsVars>>

\* what a query returns on the maps of d
QueryOf(d, q) ==
    CASE q[1] = "GetTaskByID" -> GetTaskByID(d, q[2])
      [] q[1] = "GetTasksBySchemaID" -> GetTasksBySchemaID(d, q[2])
      [] q[1] = "GetTasksByTableIDs" -> GetTasksByTableIDs(d, q[2])
      [] q[1] = "GetAllTasks" -> GetAllTasks(d)
      [] q[1] = "TaskSize" -> {TaskSize(d)}

\* a query of a reader: RLock, the body, RUnlock
Read(q) ==
    /\ ~fatal
    /\ RLock(lk)
    /\ res' = [op |-> "Read", q |-> q, result |-> QueryOf(db, q),
               flip |-> ~(res.op = "Read" /\ res.flip)]
    /\ UNCHANGED <<dbVars, opVars, beVars, call, ctl, lk, mt, hsVars>>

Queries ==
    {<<"GetTaskByID", id>> : id \in 1..MaxCallID}
        \cup {<<"GetTasksBySchemaID", sid>> : sid \in SchemaIDs}
        \cup {<<"GetTasksByTableIDs", {1}>>, <<"GetAllTasks", 0>>, <<"TaskSize", 0>>}

\* SpecLock: spans of table 1 are added; a writer replaces or renames them
\* while readers query
NextLock ==
    \/ /\ nextID <= MaxCallID
       /\ Lock(lk)
       /\ \E ts \in CheckpointTss :
             AddAbsentReplicaSet(1, TableIDToComparableSpan(1), ts)
    \/ \E olds \in CallOlds : \E news \in SplitsOf(1) :
          /\ nextID + Len(news) - 1 <= MaxCallID
          /\ ReplaceReplicaSet_Lock(olds, news, StartTs + 1)
    \/ ReplaceReplicaSet_Old
    \/ ReplaceReplicaSet_New
    \/ \E s \in SchemaIDs : UpdateSchemaID_Lock(1, s)
    \/ UpdateSchemaID_Step
    \/ \E q \in Queries : Read(q)

SpecLock == InitDB /\ [][NextLock]_vars

\* the DB after the whole call of the writer inside the lock
AfterOf(l) ==
    IF l.op = "UpdateSchemaID" THEN UpdateSchemaIDDB(l.before, l.tableID, l.newSchemaID)
    ELSE ReplaceReplicaSetDB(l.before, l.olds, l.newSpans, l.checkpointTs, l.first).db
\* the states of the DB between whole calls that a reader may see now
Committed ==
    IF lk.pc = "idle" THEN {db} ELSE {lk.before, AfterOf(lk)}

\* C30: what a query returns is what it returns on the DB before the whole
\* call of a concurrent ReplaceReplicaSet or UpdateSchemaID or on the DB
\* after it; the writer's steps add up to the call, so the DB a reader
\* finds unlocked is the DB after the call; a span the reader sees is under
\* exactly one schema key
C30_AtomicToReaders ==
    [][/\ (res' # res /\ res'.op = "Read") =>
             /\ \E d \in Committed : res'.result = QueryOf(d, res'.q)
             /\ \A id \in db.allTasks \ {ddlSpanID} :
                   Cardinality(KeysHolding(db.schemaTasks, id)) = 1
       /\ (lk.pc # "idle" /\ lk'.pc = "idle" /\ ~fatal') =>
             db' = Collect(AfterOf(lk))]_vars

\* a reader asked for the spans of schema 1 after a writer had moved two
\* spans to schema 2 in four steps, and another writer is inside the lock
C30_Witness ==
    /\ res.op = "Read"
    /\ res.q = <<"GetTasksBySchemaID", 1>>
    /\ res.result = {}
    /\ lk.pc = "schema"
    /\ lk.cur # {}
    /\ Cardinality(GetTasksBySchemaID(lk.before, 2)) = 2

(***************************************************************************)
(* moveTable as a thread of its own: once started it is scheduled again    *)
(* and again (time.Sleep returns), whatever the controller and the nodes   *)
(* do meanwhile.                                                           *)
(***************************************************************************)
SpecOpFair ==
    /\ SpecOp
    /\ \A c \in Calls : WF_vars(moveTable_AddOperator(c)) /\ WF_vars(moveTable_Wait(c))

\* the arguments with which moveTable returns before it builds an operator
NotMovable(d, tableId, targetNode) ==
    \/ GetTasksByTableIDs(d, {tableId}) = {}
    \/ targetNode \notin Nodes
    \/ Cardinality(GetTasksByTableIDs(d, {tableId})) # 1

\* C31: moveTable terminates; it sleeps at most maxTry times; it returns
\* nil when it saw the operator finished and the move-table-timeout error
\* otherwise; for a table without span, a node that is not alive or a table
\* with other than one span it returns a not-found error, builds no
\* operator and leaves the queue alone
C31_MoveTableTerminates ==
    /\ \A c \in Calls : (mv[c].pc \in {"created", "wait"}) ~> (mv[c].pc = "done")
    /\ [](\A c \in Calls : mv[c].count <= maxTry)
    /\ [][\A c \in Calls :
            /\ (mv[c].pc = "wait" /\ mv'[c] # mv[c]) =>
                  IF ~ops[c].finished /\ mv[c].count < maxTry
                  THEN mv'[c].pc = "wait" /\ mv'[c].count = mv[c].count + 1
                  ELSE /\ mv'[c].pc = "done"
                       /\ mv'[c].err = "nil" <=> ops[c].finished
                       /\ mv'[c].err = "ErrMoveTableTimeout" <=> ~ops[c].finished
            /\ \A t \in TableIDs, n \in AnyNodes :
                  (moveTable_NewMoveOperator(c, t, n) /\ NotMovable(db, t, n)) =>
                     /\ mv'[c].pc = "done"
                     /\ mv'[c].err \in {"ErrTableIsNotFounded", "ErrNodeIsNotFound"}
                     /\ UNCHANGED <<ops, runningQueue, db>>]_vars

\* one invocation timed out on an operator that is still in the queue, and
\* another returned nil
C31_Witness ==
    \E c1 \in Calls, c2 \in Calls :
        /\ mv[c1].pc = "done" /\ mv[c1].err = "ErrMoveTableTimeout"
        /\ c1 \in DOMAIN ops /\ ~ops[c1].finished
        /\ \E i \in DOMAIN runningQueue : runningQueue[i] = c1
        /\ mv[c2].pc = "done" /\ mv[c2].err = "nil" /\ c2 \in DOMAIN ops

(***************************************************************************)
(* The log puller's matcher.  unmatchedValue maps (startTs, key) to the    *)
(* prewrite row cached under it; a nil map and an empty map are the same   *)
(* map here, as they are for every read, delete and len of the code.  A    *)
(* value is a string, the empty one being the value of a fake prewrite.    *)
(* The time of the last prewrite and the metrics are left out.             *)
(***************************************************************************)
Event_Row(startTs, key, value, oldValue) ==
    [startTs |-> startTs, key |-> key, value |-> value, oldValue |-> oldValue]

newMatchKey(row) == <<row.startTs, row.key>>

\* putPrewriteRow that stores whatever arrives
putPrewriteRowOf_Overwrite(m, row) ==
    [m EXCEPT !.unmatchedValue = MapPut(@, newMatchKey(row), row),
              !.matched = MapPut(@, newMatchKey(row), 0)]

\* putPrewriteRow(row): a row with an empty value does not replace a cached row
putPrewriteRowOf(m, row) ==
    LET key == newMatchKey(row)
    IN  IF key \in DOMAIN m.unmatchedValue /\ row.value = ""
        THEN m
        ELSE [m EXCEPT !.unmatchedValue = MapPut(@, key, row),
                       !.matched = MapPut(@, key, 0)]

\* matchRow(row, initialized): the matcher, the commit row and the result
matchRowOf(m, row, initialized) ==
    LET key == newMatchKey(row)
    IN  IF key \in DOMAIN m.unmatchedValue
        THEN LET value == m.unmatchedValue[key]
             IN  IF ~initialized /\ value.value = ""
                 THEN [m |-> m, row |-> row, ret |-> FALSE]
                 ELSE [m |-> [m EXCEPT !.unmatchedValue = MapDel(@, key),
                                       !.matched = MapPut(@, key, @[key] + 1)],
                       row |-> [row EXCEPT !.value = value.value,
                                           !.oldValue = value.oldValue],
                       ret |-> TRUE]
        ELSE [m |-> m, row |-> row, ret |-> FALSE]

cacheCommitRowOf(m, row) == [m EXCEPT !.cachedCommit = Append(@, row)]

\* the loop of matchCachedRow from entry i on; s holds the matcher and the
\* rows kept so far
RECURSIVE matchCachedRows(_, _, _)
matchCachedRows(s, cachedCommit, i) ==
    IF i > Len(cachedCommit) THEN s
    ELSE LET r == matchRowOf(s.m, cachedCommit[i], TRUE)
         IN  matchCachedRows([m |-> r.m,
                              ret |-> IF r.ret THEN Append(s.ret, r.row) ELSE s.ret],
                             cachedCommit, i + 1)

\* matchCachedRow that takes the cached rows before it tests initialized
matchCachedRowOf_TakeFirst(m, initialized) ==
    IF ~initialized
    THEN [fatal |-> TRUE, m |-> [m EXCEPT !.cachedCommit = <<>>], ret |-> <<>>]
    ELSE LET s == matchCachedRows([m |-> [m EXCEPT !.cachedCommit = <<>>], ret |-> <<>>],
                                  m.cachedCommit, 1)
         IN  [fatal |-> FALSE, m |-> s.m, ret |-> s.ret]

\* matchCachedRow(initialized)
matchCachedRowOf(m, initialized) ==
    IF ~initialized
    THEN [fatal |-> TRUE, m |-> m, ret |-> <<>>]
    ELSE LET s == matchCachedRows([m |-> [m EXCEPT !.cachedCommit = <<>>], ret |-> <<>>],
                                  m.cachedCommit, 1)
         IN  [fatal |-> FALSE, m |-> s.m, ret |-> s.ret]

rollbackRowOf(m, row) == [m EXCEPT !.unmatchedValue = MapDel(@, newMatchKey(row))]

cacheRollbackRowOf(m, row) == [m EXCEPT !.cachedRollback = Append(@, row)]

RECURSIVE rollbackRows(_, _, _)
rollbackRows(m, rollback, i) ==
    IF i > Len(rollback) THEN m
    ELSE rollbackRows(rollbackRowOf(m, rollback[i]), rollback, i + 1)

\* matchCachedRollbackRow(initialized)
matchCachedRollbackRowOf(m, initialized) ==
    IF ~initialized
    THEN [fatal |-> TRUE, m |-> m]
    ELSE [fatal |-> FALSE,
          m |-> rollbackRows([m EXCEPT !.cachedRollback = <<>>], m.cachedRollback, 1)]

\* the record of a call on the matcher
NoRow == Event_Row(0, "", "", "")
MatcherCall(op, row, initialized, r) ==
    [op |-> op, row |-> row, initialized |-> initialized,
     ret |-> r.ret, out |-> r.row, rows |-> r.rows,
     flip |-> ~(res.op = op /\ res.flip)]

putPrewriteRow(row) ==
    /\ ~fatal
    /\ mt' = putPrewriteRowOf(mt, row)
    /\ res' = MatcherCall("putPrewriteRow", row, FALSE,
                       [ret |-> FALSE, row |-> NoRow, rows |-> <<>>])
    /\ UNCHANGED <<dbVars, opVars, beVars, call, ctl, lk, hsVars>>

matchRow(row, initialized) ==
    /\ ~fatal
    /\ LET r == matchRowOf(mt, row, initialized)
       IN  /\ mt' = r.m
           /\ res' = MatcherCall("matchRow", row, initialized,
                              [ret |-> r.ret, row |-> r.row, rows |-> <<>>])
    /\ UNCHANGED <<dbVars, opVars, beVars, call, ctl, lk, hsVars>>

cacheCommitRow(row) ==
    /\ ~fatal
    /\ mt' = cacheCommitRowOf(mt, row)
    /\ res' = MatcherCall("cacheCommitRow", row, FALSE,
                       [ret |-> FALSE, row |-> NoRow, rows |-> <<>>])
    /\ UNCHANGED <<dbVars, opVars, beVars, call, ctl, lk, hsVars>>

matchCachedRow(initialized) ==
    /\ ~fatal
    /\ LET r == matchCachedRowOf(mt, initialized)
       IN  /\ mt' = r.m
           /\ fatal' = r.fatal
           /\ res' = MatcherCall("matchCachedRow", NoRow, initialized,
                              [ret |-> FALSE, row |-> NoRow, rows |-> r.ret])
    /\ UNCHANGED <<db, nextID, opVars, beVars, call, ctl, lk, hsVars>>

rollbackRow(row) ==
    /\ ~fatal
    /\ mt' = rollbackRowOf(mt, row)
    /\ res' = MatcherCall("rollbackRow", row, FALSE,
                       [ret |-> FALSE, row |-> NoRow, rows |-> <<>>])
    /\ UNCHANGED <<dbVars, opVars, beVars, call, ctl, lk, hsVars>>

cacheRollbackRow(row) ==
    /\ ~fatal
    /\ mt' = cacheRollbackRowOf(mt, row)
    /\ res' = MatcherCall("cacheRollbackRow", row, FALSE,
                       [ret |-> FALSE, row |-> NoRow, rows |-> <<>>])
    /\ UNCHANGED <<dbVars, opVars, beVars, call, ctl, lk, hsVars>>

matchCachedRollbackRow(initialized) ==
    /\ ~fatal
    /\ LET r == matchCachedRollbackRowOf(mt, initialized)
       IN  /\ mt' = r.m
           /\ fatal' = r.fatal
           /\ res' = MatcherCall("matchCachedRollbackRow", NoRow, initialized,
                       [ret |-> FALSE, row |-> NoRow, rows |-> <<>>])
    /\ UNCHANGED <<db, nextID, opVars, beVars, call, ctl, lk, hsVars>>

\* clear(): nothing stays cached
clear ==
    /\ ~fatal
    /\ mt # newMatcher
    /\ mt' = newMatcher
    /\ res' = MatcherCall("clear", NoRow, FALSE,
                       [ret |-> FALSE, row |-> NoRow, rows |-> <<>>])
    /\ UNCHANGED <<dbVars, opVars, beVars, call, ctl, lk, hsVars>>

\* SpecMatch: the events of one region in any order; a prewrite is real
\* (value v or w) or fake (empty value, with an old value); a commit or
\* rollback row carries no value
MaxCached == 2
MatchKeys == {<<1, "a">>, <<1, "b">>}
PrewriteRows ==
    {Event_Row(k[1], k[2], v[1], v[2]) :
        k \in MatchKeys, v \in {<<"", "o">>, <<"v", "">>, <<"w", "o">>}}
CommitRows == {Event_Row(k[1], k[2], "", "") : k \in MatchKeys}

NextMatch ==
    \/ \E row \in PrewriteRows : putPrewriteRow(row)
    \/ \E row \in CommitRows, initialized \in BOOLEAN : matchRow(row, initialized)
    \/ \E row \in CommitRows : Len(mt.cachedCommit) < MaxCached /\ cacheCommitRow(row)
    \/ \E initialized \in BOOLEAN : matchCachedRow(initialized)
    \/ \E row \in CommitRows : rollbackRow(row)
    \/ \E row \in CommitRows : Len(mt.cachedRollback) < MaxCached /\ cacheRollbackRow(row)
    \/ \E initialized \in BOOLEAN : matchCachedRollbackRow(initialized)
    \/ clear

SpecMatch == InitDB /\ [][NextMatch]_vars

\* C32: matchCachedRow and matchCachedRollbackRow on a region that is not
\* initialized end the process and leave the cached commit rows, the cached
\* rollback rows and the unmatched prewrites as they were
C32_MatchCachedBeforeInit ==
    [][(/\ res' # res
        /\ res'.op \in {"matchCachedRow", "matchCachedRollbackRow"}
        /\ ~res'.initialized) =>
           /\ fatal'
           /\ mt'.cachedCommit = mt.cachedCommit
           /\ mt'.cachedRollback = mt.cachedRollback
           /\ mt'.unmatchedValue = mt.unmatchedValue]_vars

\* matchCachedRow(false) ended the process with a commit row, a rollback row
\* and a prewrite cached
C32_Witness ==
    /\ fatal
    /\ res.op = "matchCachedRow"
    /\ ~res.initialized
    /\ mt.cachedCommit # <<>>
    /\ mt.cachedRollback # <<>>
    /\ DOMAIN mt.unmatchedValue # {}

\* a call of the matcher has just returned
IsMatcherCall(op) == res' # res /\ res'.op = op

\* C40: a prewrite with an empty value leaves a cached prewrite of its
\* (startTs, key) alone; matchRow on a region that is not initialized does
\* not match a cached prewrite with an empty value and keeps it; a matchRow
\* that matches hands the cached value to the commit row and removes the
\* prewrite, and one that finds no prewrite matches nothing, so that no
\* cached prewrite is matched by two commit rows
C40_FakePrewrite ==
    /\ [](\A k \in DOMAIN mt.matched : mt.matched[k] <= 1)
    /\ [][/\ (/\ IsMatcherCall("putPrewriteRow")
              /\ res'.row.value = ""
              /\ newMatchKey(res'.row) \in DOMAIN mt.unmatchedValue) => mt' = mt
          /\ IsMatcherCall("matchRow") =>
                LET key == newMatchKey(res'.row)
                IN  IF key \notin DOMAIN mt.unmatchedValue
                    THEN ~res'.ret /\ mt' = mt /\ res'.out = res'.row
                    ELSE IF ~res'.initialized /\ mt.unmatchedValue[key].value = ""
                    THEN ~res'.ret /\ mt' = mt /\ res'.out = res'.row
                    ELSE /\ res'.ret
                         /\ res'.out.value = mt.unmatchedValue[key].value
                         /\ res'.out.oldValue = mt.unmatchedValue[key].oldValue
                         /\ key \notin DOMAIN mt'.unmatchedValue
                         /\ \A k \in DOMAIN mt.unmatchedValue \ {key} :
                               /\ k \in DOMAIN mt'.unmatchedValue
                               /\ mt'.unmatchedValue[k] = mt.unmatchedValue[k]
          /\ IsMatcherCall("matchCachedRow") =>
                /\ \A i \in DOMAIN res'.rows :
                      newMatchKey(res'.rows[i]) \in
                          DOMAIN mt.unmatchedValue \ DOMAIN mt'.unmatchedValue
                /\ \A i \in DOMAIN res'.rows, j \in DOMAIN res'.rows :
                      newMatchKey(res'.rows[i]) = newMatchKey(res'.rows[j]) => i = j]_vars

\* a fake prewrite has just been dropped in favour of the cached v of its
\* key, after the prewrite of the other key was matched by a commit row
C40_Witness ==
    /\ res.op = "putPrewriteRow"
    /\ res.row.value = ""
    /\ newMatchKey(res.row) \in DOMAIN mt.unmatchedValue
    /\ mt.unmatchedValue[newMatchKey(res.row)].value = "v"
    /\ \E k \in DOMAIN mt.matched : k # newMatchKey(res.row) /\ mt.matched[k] = 1

(***************************************************************************)
(* scheduleBlockEvent.  The event keeps, from the block state it was made  *)
(* of, the commit ts, the tables to drop, the tables to add and the schema *)
(* changes.  The operator controller's RemoveTasksBy... take the spans out *)
(* of the DB with TryRemoveBy... and make a remove operator for every span *)
(* returned.                                                               *)
(***************************************************************************)
NilTables == InfluencedTables("nil", <<>>, 0)
SchemaIDChange(tableID, oldSchemaID, newSchemaID) ==
    [TableID |-> tableID, OldSchemaID |-> oldSchemaID, NewSchemaID |-> newSchemaID]
\* the fields of NewBlockEvent that scheduleBlockEvent reads
ScheduleOf(blockTs, needDroppedTables, needAddedTables, updatedSchemas) ==
    [commitTs |-> blockTs, dropDispatchers |-> needDroppedTables,
     newTables |-> needAddedTables, schemaIDChange |-> updatedSchemas]

\* the switch on dropDispatchers: the DB afterwards and the spans handed to
\* remove operators
dropTables(d, drop) ==
    CASE drop.InfluenceType = "DB" ->
            [db |-> TryRemoveBySchemaIDDB(d, drop.SchemaID),
             removed |-> TryRemoveBySchemaIDRet(d, drop.SchemaID)]
      [] drop.InfluenceType = "Normal" ->
            [db |-> TryRemoveByTableIDsDB(d, Range(drop.TableIDs)),
             removed |-> TryRemoveByTableIDsRet(d, Range(drop.TableIDs))]
      [] drop.InfluenceType = "All" ->
            [db |-> TryRemoveAllDB(d), removed |-> TryRemoveAllRet(d)]
      [] OTHER -> [db |-> d, removed |-> {}]

\* the loop over newTables from entry i on; s holds the DB and the next id
RECURSIVE addTables(_, _, _, _, _, _)
addTables(s, newTables, commitTs, enableTableAcrossNodes, splitter, i) ==
    IF i > Len(newTables) THEN s
    ELSE LET r == AddNewTableDB(s.db, s.next, newTables[i], commitTs,
                                enableTableAcrossNodes, splitter[newTables[i].TableID])
         IN  addTables([db |-> r.db, next |-> s.next + r.n], newTables, commitTs,
                       enableTableAcrossNodes, splitter, i + 1)

\* the loop over schemaIDChange from entry i on
RECURSIVE changeSchemas(_, _, _)
changeSchemas(d, schemaIDChange, i) ==
    IF i > Len(schemaIDChange) THEN d
    ELSE changeSchemas(UpdateSchemaIDDB(d, schemaIDChange[i].TableID,
                                        schemaIDChange[i].NewSchemaID),
                       schemaIDChange, i + 1)

\* scheduleBlockEvent that adds the new tables before it drops
scheduleBlockEventOf_AddFirst(d, first, e, enableTableAcrossNodes, splitter) ==
    LET s == addTables([db |-> d, next |-> first], e.newTables, e.commitTs,
                       enableTableAcrossNodes, splitter, 1)
        r == dropTables(s.db, e.dropDispatchers)
    IN  [db |-> changeSchemas(r.db, e.schemaIDChange, 1), next |-> s.next,
         removed |-> r.removed]

\* scheduleBlockEvent: drop, add, change schemas
scheduleBlockEventOf(d, first, e, enableTableAcrossNodes, splitter) ==
    LET r == dropTables(d, e.dropDispatchers)
        s == addTables([db |-> r.db, next |-> first], e.newTables, e.commitTs,
                       enableTableAcrossNodes, splitter, 1)
    IN  [db |-> changeSchemas(s.db, e.schemaIDChange, 1), next |-> s.next,
         removed |-> r.removed]

scheduleBlockEvent(e, splitter) ==
    /\ ~fatal
    /\ LET r == scheduleBlockEventOf(db, nextID, e, ctl.enableTableAcrossNodes, splitter)
       IN  /\ db' = Collect(r.db)
           /\ nextID' = r.next
           /\ res' = [op |-> "scheduleBlockEvent", e |-> e, splitter |-> splitter,
                      removed |-> r.removed,
                      flip |-> ~(res.op = "scheduleBlockEvent" /\ res.flip)]
    /\ UNCHANGED <<fatal, opVars, beVars, call, ctl, lk, mt, hsVars>>

\* SpecSchedule: spans of tables 1 and 2 exist, on a node or absent; events
\* drop nothing, table 1, both tables, schema 1 or everything, add table 1
\* or both tables, and move table 1 to schema 2
MaxSchedID == 4
DropTables ==
    {NilTables, InfluencedTables("Normal", <<1>>, 0), InfluencedTables("Normal", <<1, 2>>, 0),
     InfluencedTables("DB", <<>>, 1), InfluencedTables("All", <<>>, 0)}
AddedTables == {<<>>, <<Table(1, 1)>>, <<Table(2, 1)>>, <<Table(1, 1), Table(1, 2)>>}
UpdatedSchemas == {<<>>, <<SchemaIDChange(1, 1, 2)>>}
Schedules ==
    {ScheduleOf(StartTs + 1, drop, add, upd) :
        drop \in DropTables, add \in AddedTables, upd \in UpdatedSchemas}

NextSchedule ==
    \/ /\ nextID <= MaxID
       /\ \E t \in TableIDs, sid \in SchemaIDs :
             AddReplicatingSpan(sid, TableIDToComparableSpan(t), StartTs, DDLNode)
    \/ /\ nextID <= MaxID
       /\ \E t \in TableIDs : AddAbsentReplicaSet(1, TableIDToComparableSpan(t), StartTs)
    \/ \E e \in Schedules : \E splitter \in Splitters(ctl.enableTableAcrossNodes) :
          /\ nextID + 2 * Len(e.newTables) - 1 <= MaxSchedID
          /\ scheduleBlockEvent(e, splitter)

SpecSchedule == InitBoot /\ [][NextSchedule]_vars

\* the spans of d the event's dropDispatchers name
DropScope(d, drop) ==
    CASE drop.InfluenceType = "DB" -> GetTasksBySchemaID(d, drop.SchemaID)
      [] drop.InfluenceType = "Normal" -> GetTasksByTableIDs(d, Range(drop.TableIDs))
      [] drop.InfluenceType = "All" -> GetAllTasks(d)
      [] OTHER -> {}
\* the schema id of the first entry of newTables for the table
AddedSchema(e, t) ==
    e.newTables[CHOOSE i \in DOMAIN e.newTables :
                   /\ e.newTables[i].TableID = t
                   /\ \A j \in 1..(i - 1) : e.newTables[j].TableID # t].SchemaID
\* the schema id the event leaves a span of the table with
FinalSchema(e, t, schemaID) ==
    LET changes == {i \in DOMAIN e.schemaIDChange : e.schemaIDChange[i].TableID = t}
    IN  IF changes = {} THEN schemaID
        ELSE e.schemaIDChange[CHOOSE i \in changes : \A j \in changes : j <= i].NewSchemaID

\* C33: scheduleBlockEvent drops, then adds, then changes schemas.  A table
\* whose spans are all dropped and that is among the new tables ends with
\* new absent spans of the whole table from the commit ts, in the schema
\* the event names last for it; a table whose spans are all dropped and
\* that is not added has no span; of a table that keeps a span the
\* surviving spans stay, nothing is added, and they get the changed schema
C33_ScheduleOrder ==
    [][(res' # res /\ res'.op = "scheduleBlockEvent") =>
          LET e == res'.e
              added == {e.newTables[i].TableID : i \in DOMAIN e.newTables}
              scope == DropScope(db, e.dropDispatchers)
          IN  \A t \in TableIDs :
                 LET old == MapGet(db.tableTasks, t)
                     new == MapGet(db'.tableTasks, t)
                 IN  IF old \subseteq scope
                     THEN IF t \in added
                          THEN /\ new # {}
                               /\ {SpanOf(db', id) : id \in new} =
                                     (IF ctl.enableTableAcrossNodes
                                      THEN Range(res'.splitter[t])
                                      ELSE {TableIDToComparableSpan(t)})
                               /\ \A id \in new :
                                     /\ id >= nextID /\ id < nextID'
                                     /\ id \in db'.absent
                                     /\ GetNodeID(db', id) = NoNode
                                     /\ db'.spans[id].checkpointTs = e.commitTs
                                     /\ GetSchemaID(db', id) = FinalSchema(e, t, AddedSchema(e, t))
                                     /\ id \in GetTasksBySchemaID(db', GetSchemaID(db', id))
                          ELSE new = {}
                     ELSE /\ new = old \ scope
                          /\ \A id \in new :
                                /\ GetSchemaID(db', id) = FinalSchema(e, t, GetSchemaID(db, id))
                                /\ PartitionOf(db', id) = PartitionOf(db, id)]_vars

\* table 1 replicated on a node in schema 1; one event dropped table 1,
\* added it again in schema 1 and moved it to schema 2: the old span went to
\* a remove operator and the table has one new absent span in schema 2
C33_Witness ==
    /\ res.op = "scheduleBlockEvent"
    /\ res.e.dropDispatchers = InfluencedTables("Normal", <<1>>, 0)
    /\ res.e.newTables = <<Table(1, 1)>>
    /\ res.e.schemaIDChange = <<SchemaIDChange(1, 1, 2)>>
    /\ res.removed = {1}
    /\ MapGet(db.tableTasks, 1) = {2}
    /\ 2 \in db.absent
    /\ GetSchemaID(db, 2) = 2
    /\ GetTasksBySchemaID(db, 1) = {}

\* the part of the tables' key ranges a range checker has seen
Coverage(rc) ==
    IF rc.kind = "count" THEN [kind |-> "count", tables |-> rc.reportedMap, keys |-> <<>>]
    ELSE [kind |-> "span", tables |-> {}, keys |-> rc.tableSpans]

\* C34: on every event still collecting reports, markDispatcherEventDone of
\* an id the DB does not know leaves the event as it is; of a known id it
\* adds the span's keys [startKey, endKey) under the span's table id (the
\* table id itself for a count checker, nothing for a table the span
\* checker does not expect) and nothing else; a second report of the same
\* dispatcher changes neither the checker nor allDispatcherReported
C34_MarkDispatcherEventDone ==
    (ev.created /\ ~ev.selected) =>
        \A id \in AnyIDs :
            LET e1 == markDispatcherEventDone(ev, db, id)
                rc == ev.rangeChecker
                rc1 == e1.rangeChecker
            IN  /\ [e1 EXCEPT !.rangeChecker = rc] = ev
                /\ id \notin db.allTasks => e1 = ev
                /\ id \in db.allTasks =>
                      LET sp == db.spans[id]
                      IN  /\ rc1.kind = rc.kind /\ rc1.needCount = rc.needCount
                          /\ rc.kind = "count" =>
                                Coverage(rc1).tables = Coverage(rc).tables \cup {sp.tableID}
                          /\ rc.kind = "span" =>
                                /\ DOMAIN rc1.tableSpans = DOMAIN rc.tableSpans
                                /\ \A t \in DOMAIN rc.tableSpans :
                                      rc1.tableSpans[t] =
                                         IF t = sp.tableID
                                         THEN rc.tableSpans[t] \cup {k \in 0..(KeyMax - 1) :
                                                  sp.startKey <= k /\ k < sp.endKey}
                                         ELSE rc.tableSpans[t]
                /\ markDispatcherEventDone(e1, db, id) = e1
                /\ allDispatcherReported(markDispatcherEventDone(e1, db, id))
                      = allDispatcherReported(e1)

\* the span checker of an event has seen the keys [0, 1) of table 1 from a
\* dispatcher that is still in the DB, and a dispatcher id unknown to the
\* DB may report next
C34_Witness ==
    /\ ev.created /\ ~ev.selected
    /\ ev.rangeChecker.kind = "span"
    /\ 1 \in DOMAIN ev.rangeChecker.tableSpans
    /\ ev.rangeChecker.tableSpans[1] = {0}
    /\ \E id \in db.allTasks : SpanOf(db, id) = TableSpan(1, 0, 1)
    /\ \E id \in NewIDs : id \notin db.allTasks

\* C35: UpdateSchemaID(t, s) leaves allTasks, tableTasks and the three
\* partitions as they were; no span changes a field other than its schema
\* id; a span of another table, the DDL span included, keeps its schema id
\* and the schema keys it is under
C35_UpdateSchemaIDFrame ==
    [][call'.op = "UpdateSchemaID" =>
          LET t == call'.tableID
          IN  /\ db'.allTasks = db.allTasks
              /\ db'.tableTasks = db.tableTasks
              /\ db'.absent = db.absent
              /\ db'.scheduling = db.scheduling
              /\ db'.replicating = db.replicating
              /\ DOMAIN db'.spans = DOMAIN db.spans
              /\ \A id \in db.allTasks :
                    /\ [db'.spans[id] EXCEPT !.schemaID = db.spans[id].schemaID] = db.spans[id]
                    /\ db.spans[id].tableID # t =>
                          /\ db'.spans[id] = db.spans[id]
                          /\ KeysHolding(db'.schemaTasks, id) = KeysHolding(db.schemaTasks, id)]_vars

\* table 1 was moved to schema 2 while the replicating span of table 2
\* stayed in schema 1 on its node and the DDL span under its own key
C35_Witness ==
    /\ call.op = "UpdateSchemaID" /\ call.tableID = 1 /\ call.newSchemaID = 2
    /\ GetTasksByTableIDs(db, {1}) # {}
    /\ GetTasksBySchemaID(db, 2) = GetTasksByTableIDs(db, {1})
    /\ \E id \in GetTasksByTableIDs(db, {2}) :
          /\ id \in db.replicating
          /\ GetNodeID(db, id) = DDLNode
          /\ GetTasksBySchemaID(db, 1) = {id}
    /\ GetTasksBySchemaID(db, DDLSchemaID) = {ddlSpanID}

\* GetTask(writerDispatcher) is nil or the span has no node
WriterMissing(e, d) ==
    \/ GetTaskByID(d, e.writerDispatcher) = {}
    \/ GetNodeID(d, e.writerDispatcher) = NoNode

\* C36: a resend on a selected event whose writer has not advanced and is
\* gone from the DB or without node returns no message and keeps selected,
\* writerDispatcher, writerDispatcherAdvanced and the range checker; so a
\* resend that returns messages found the writer on a node or advanced
C36_ResendWriterMissing ==
    [][resend =>
          /\ (ev.selected /\ ~ev.writerDispatcherAdvanced /\ WriterMissing(ev, db)) =>
                /\ out'.msgs = {}
                /\ out'.ret = {}
                /\ ev'.selected
                /\ ev'.writerDispatcher = ev.writerDispatcher
                /\ ~ev'.writerDispatcherAdvanced
                /\ ev'.rangeChecker = ev.rangeChecker
          /\ out'.msgs # {} =>
                /\ ev.selected
                /\ ev.writerDispatcherAdvanced \/ ~WriterMissing(ev, db)]_vars

\* the elected writer was removed from the DB before it advanced; a resend
\* has just run past the rate limit and returned nothing
C36_Witness ==
    /\ ev.created /\ ev.selected /\ ~ev.writerDispatcherAdvanced
    /\ ev.writerDispatcher \notin db.allTasks
    /\ ev.lastResendTime = now
    /\ out = [ret |-> {}, msgs |-> {}]

\* C37: without split, a Normal event elects its writer only when a
\* dispatcher of every table id of blockTables.tableIDs has reported, the
\* reports of the electing heartbeat included
C37_NormalCoverage ==
    [][(/\ ev.created /\ ~ev.selected /\ ev'.selected
        /\ ev.blockedDispatchers.InfluenceType = "Normal"
        /\ ~ev.dynamicSplitEnabled) =>
          \A batch \in Batches :
             Barrier_HandleStatus(batch) =>
                Range(ev.blockedDispatchers.TableIDs) \subseteq
                   handleBlockStates(ev, db, batch, 1).rangeChecker.reportedMap]_vars

\* C38: every Pass message a resend returns is addressed to a node, and a
\* Normal one lists no dispatcher that has no node
C38_PassToNode ==
    [][(resend /\ ev.writerDispatcherAdvanced) =>
          \A m \in out'.msgs :
             /\ IsPass(m)
             /\ m.To # NoNode
             /\ \A id \in DOMAIN ListedIn(m) : GetNodeID(db, id) # NoNode]_vars

(***************************************************************************)
(* HandleStatus next to threads that remove spans.  HandleStatus looks the *)
(* span up (GetTask, under the read lock), tests its node, and calls       *)
(* UpdateStatus, which writes the status into the span object it was       *)
(* given, fetches the group checker, and only then takes the lock to       *)
(* update the checker.  Nothing is held between these steps.  reset()      *)
(* replaces the partitions and their group checkers by new ones: gc.gen    *)
(* counts the replacements, gc.updated keeps which checker took an update  *)
(* for which span.                                                         *)
(***************************************************************************)
\* HandleStatus(from, <<status>>) up to the call of UpdateStatus
HandleStatus_GetTask(from, status) ==
    /\ ~fatal
    /\ hs.pc = "idle"
    /\ ops' = UpdateOperatorStatusOf(ops, runningQueue, status.ID, from, status)
    /\ IF GetTaskByID(db, status.ID) # {} /\ nodeMatches(db, status.ID, from)
       THEN /\ hs' = [pc |-> "update", from |-> from, status |-> status,
                      stm |-> db.spans[status.ID]]
            /\ res' = res
       ELSE /\ hs' = hs
            /\ res' = [op |-> "HandleStatus", from |-> from, statusList |-> <<status>>,
                       sent |-> handleStatusOf([db |-> db, ops |-> ops, sent |-> <<>>],
                                               runningQueue, from, status).sent,
                       flip |-> ~(res.op = "HandleStatus" /\ res.flip)]
    /\ UNCHANGED <<dbVars, runningQueue, mv, beVars, call, ctl, lk, mt, gc>>

\* UpdateStatus before its lock: span.UpdateStatus(status) on the object the
\* caller holds, in the DB or not, and GetGroupChecker
UpdateStatus_Span ==
    /\ ~fatal
    /\ hs.pc = "update"
    /\ db' = IF hs.status.ID \in db.allTasks
             THEN UpdateStatusDB(db, hs.status.ID, hs.status) ELSE db
    /\ hs' = [pc |-> "lock", from |-> hs.from, status |-> hs.status,
              stm |-> [hs.stm EXCEPT !.componentStatus = hs.status.ComponentStatus,
                                     !.checkpointTs = hs.status.CheckpointTs],
              checker |-> gc.gen]
    /\ UNCHANGED <<nextID, fatal, opVars, beVars, call, ctlVars, mt, gc>>

\* UpdateStatus inside its lock: checker.UpdateStatus(span), and the return
\* of HandleStatus
UpdateStatus_Checker ==
    /\ ~fatal
    /\ hs.pc = "lock"
    /\ Lock(lk)
    /\ gc' = [gc EXCEPT !.updated = @ \cup {<<hs.checker, hs.status.ID>>}]
    /\ hs' = [pc |-> "idle"]
    /\ res' = [op |-> "HandleStatus", from |-> hs.from, statusList |-> <<hs.status>>,
               sent |-> <<<<>>>>, flip |-> ~(res.op = "HandleStatus" /\ res.flip)]
    /\ UNCHANGED <<dbVars, opVars, beVars, call, ctl, lk, mt>>

\* TryRemoveAll with the new partitions and group checkers of reset()
MaxGen == 1
TryRemoveAll_Reset ==
    /\ ~fatal
    /\ Lock(lk)
    /\ gc.gen < MaxGen
    /\ db' = Collect(TryRemoveAllDB(db))
    /\ gc' = [gc EXCEPT !.gen = @ + 1]
    /\ UNCHANGED <<nextID, fatal, opVars, beVars, call, ctlVars, mt, hs>>

NextRace ==
    \/ /\ nextID <= MaxID
       /\ \E t \in TableIDs : AddReplicatingSpan(1, TableIDToComparableSpan(t), StartTs, DDLNode)
    \/ \E from \in Nodes, status \in HeartbeatStatuses : HandleStatus_GetTask(from, status)
    \/ UpdateStatus_Span
    \/ UpdateStatus_Checker
    \/ \E id \in Schedulable : ForceRemove(id)
    \/ \E t \in TableIDs : TryRemoveByTableIDs({t})
    \/ TryRemoveAll_Reset

SpecRace == InitDB /\ [][NextRace]_vars

\* C39: UpdateStatus writes a status into a span and updates the span's
\* group checker only while the span is in the DB, and the checker it
\* updates is one of the DB's current generation
C39_StatusWhilePresent ==
    [][/\ (hs.pc = "update" /\ hs'.pc = "lock") => hs.status.ID \in db.allTasks
       /\ (hs.pc = "lock" /\ hs'.pc = "idle") =>
             /\ hs.status.ID \in db.allTasks
             /\ hs.checker = gc.gen]_vars

====
